---- MODULE Spec2Model ----
(***************************************************************************)
(* Model of sync_to_ad.py: the reconciliation of the Feishu roster with    *)
(* the AD directory (login-name assignment, two-tier matching, plan) and   *)
(* the run orchestration of __main__ (snapshots, integrity gates,          *)
(* executors).                                                             *)
(*                                                                         *)
(* Strings that the code takes apart or orders (the pinyin token, the      *)
(* employee number, the SamAccountName) are sequences of one-character     *)
(* strings, so that split('.'), the f-string formatting and the string     *)
(* order of sorted() are computed, not assumed; the empty string is <<>>.  *)
(* Columns that are copied through unread (DisplayName, EmailAddress,      *)
(* UUID) are left out of the rows.                                         *)
(***************************************************************************)
EXTENDS Integers, Sequences, FiniteSets, TLC

\* ---------------------------------------------------------------- bounds
\* longest roster (rows of feishu_users.csv) the planner is run on
MaxRoster == 3
\* most rows of the exported ad_existing_users.csv
MaxAdRows == 2
\* most rows of feishu_users.csv in a whole run of __main__
MaxRunRows == 1
\* most rows of the exported ad_existing_users.csv in a whole run of __main__
MaxRunAdRows == 2
\* most rows of the exported ExistingOUs.csv in a whole run of __main__
MaxOuRows == 3
\* most rows of feishu_departments.csv the paths are built for
MaxDepts == 3
\* longest value of the environment variable PINYIN_EXCEPTIONS
MaxEnvLen == 4
\* calls of build_dept_path in progress at which the interpreter raises
\* RecursionError (1000 in CPython); one more than the longest chain of MaxDepts rows
RecursionLimit == 4

\* ------------------------------------------------------- string helpers
\* code points of the characters the model uses (Python compares str by code point)
CharOrd(c) ==
    CASE c = "." -> 46
      [] c = "0" -> 48 [] c = "1" -> 49 [] c = "2" -> 50 [] c = "3" -> 51
      [] c = "4" -> 52 [] c = "5" -> 53 [] c = "6" -> 54 [] c = "7" -> 55
      [] c = "8" -> 56 [] c = "9" -> 57
      [] c = "a" -> 97 [] c = "b" -> 98 [] c = "c" -> 99

\* (variant) employee numbers compared as numbers: the shorter digit string first
RECURSIVE StrLess_Numeric(_, _)
StrLess_Numeric(a, b) ==
    IF Len(a) # Len(b) THEN Len(a) < Len(b)
    ELSE IF a = <<>> THEN FALSE
    ELSE IF CharOrd(Head(a)) # CharOrd(Head(b)) THEN CharOrd(Head(a)) < CharOrd(Head(b))
    ELSE StrLess_Numeric(Tail(a), Tail(b))

\* Python's str < str: lexicographic, a proper prefix is smaller
RECURSIVE StrLess(_, _)
StrLess(a, b) ==
    IF b = <<>> THEN FALSE
    ELSE IF a = <<>> THEN TRUE
    ELSE IF CharOrd(Head(a)) < CharOrd(Head(b)) THEN TRUE
    ELSE IF CharOrd(Head(a)) > CharOrd(Head(b)) THEN FALSE
    ELSE StrLess(Tail(a), Tail(b))

\* str.split('.'): the parts between the separators (always at least one part)
RECURSIVE SplitDot(_)
SplitDot(s) ==
    IF s = <<>> THEN << <<>> >>
    ELSE IF Head(s) = "." THEN << <<>> >> \o SplitDot(Tail(s))
    ELSE LET rest == SplitDot(Tail(s))
         IN  << <<Head(s)>> \o Head(rest) >> \o Tail(rest)

DigitChar(d) == <<"0", "1", "2", "3", "4", "5", "6", "7", "8", "9">>[d + 1]

\* str(index) for index >= 0, as formatted by the f-string
RECURSIVE IntToStr(_)
IntToStr(n) ==
    IF n < 10 THEN <<DigitChar(n)>>
    ELSE IntToStr(n \div 10) \o <<DigitChar(n % 10)>>

\* ------------------------------------------------------ login-name rules
\* pinyin_count[pinyin]: the roster rows with that token, in roster order
PinyinGroup(users, pinyin) == SelectSeq(users, LAMBDA u : u.pinyin = pinyin)

\* insertion of one row behind every row whose key is not greater (stable)
RECURSIVE InsertByEmp(_, _)
InsertByEmp(u, s) ==
    IF s = <<>> THEN <<u>>
    ELSE IF StrLess(u.employee_no, Head(s).employee_no) THEN <<u>> \o s
    ELSE <<Head(s)>> \o InsertByEmp(u, Tail(s))


\* (variant) the group is left in roster order
SortedByEmp_RosterOrder(s) == s

\* sorted(group, key=lambda x: x['工号'])
RECURSIVE SortedByEmp(_)
SortedByEmp(s) ==
    IF s = <<>> THEN <<>>
    ELSE InsertByEmp(s[Len(s)], SortedByEmp(SubSeq(s, 1, Len(s) - 1)))

\* next(i for i, u in enumerate(sorted_users) if u['工号'] == employee_no), 0-based
FirstIndexOfEmp(sorted_users, employee_no) ==
    (CHOOSE i \in 1..Len(sorted_users) :
        /\ sorted_users[i].employee_no = employee_no
        /\ \A j \in 1..(i - 1) : sorted_users[j].employee_no # employee_no) - 1

\* f"{parts[0]}{index}.{parts[1]}" when the token has two parts, else f"{pinyin}{index}"
NumberedName(pinyin, index) ==
    LET parts == SplitDot(pinyin)
    IN  IF Len(parts) = 2
        THEN parts[1] \o IntToStr(index) \o <<".">> \o parts[2]
        ELSE pinyin \o IntToStr(index)

\* (variant) the override table is consulted only for a token nobody shares
SamAccountFor_GroupFirst(row, users, exc) ==
    LET pinyin == row.pinyin
        group  == PinyinGroup(users, pinyin)
    IN  IF Len(group) > 1
        THEN LET sorted_users == SortedByEmp(group)
             IN  IF row.employee_no = sorted_users[1].employee_no
                 THEN pinyin
                 ELSE NumberedName(pinyin, FirstIndexOfEmp(sorted_users, row.employee_no))
        ELSE IF pinyin \in DOMAIN exc THEN exc[pinyin]
        ELSE pinyin

\* the SamAccountName split_users_for_sync determines for one roster row
SamAccountFor(row, users, exc) ==
    LET pinyin == row.pinyin
        group  == PinyinGroup(users, pinyin)
    IN  IF pinyin \in DOMAIN exc THEN exc[pinyin]
        ELSE IF Len(group) > 1
        THEN LET sorted_users == SortedByEmp(group)
             IN  IF row.employee_no = sorted_users[1].employee_no
                 THEN pinyin
                 ELSE NumberedName(pinyin, FirstIndexOfEmp(sorted_users, row.employee_no))
        ELSE pinyin

\* ------------------------------------------------- directory snapshot
\* dict assignment d[k] = v (a later row with the same key replaces the earlier)
DictPut(d, k, v) == (k :> v) @@ d

\* str.strip() for the one kind of whitespace the model uses
RECURSIVE LStrip(_)
LStrip(s) == IF s # <<>> /\ Head(s) = " " THEN LStrip(Tail(s)) ELSE s
RECURSIVE RStrip(_)
RStrip(s) == IF s # <<>> /\ s[Len(s)] = " " THEN RStrip(SubSeq(s, 1, Len(s) - 1)) ELSE s
\* (variant) the cell is used as exported
Strip_AsExported(s) == s

Strip(s) == RStrip(LStrip(s))

\* user_info built from one row of ad_existing_users.csv
UserInfo(row) == [SamAccountName |-> row.SamAccountName]

\* existing_users after reading the export: keyed by the trimmed EmployeeNumber
RECURSIVE ParseExistingUsers(_)
ParseExistingUsers(rows) ==
    IF rows = <<>> THEN <<>>
    ELSE LET row  == rows[Len(rows)]
             prev == ParseExistingUsers(SubSeq(rows, 1, Len(rows) - 1))
             employee_number == Strip(row.EmployeeNumber)
         IN  IF employee_number # <<>>
             THEN DictPut(prev, employee_number, UserInfo(row))
             ELSE prev

\* users_without_union_id after reading the export: keyed by SamAccountName
RECURSIVE ParseUsersWithoutUnionId(_)
ParseUsersWithoutUnionId(rows) ==
    IF rows = <<>> THEN <<>>
    ELSE LET row  == rows[Len(rows)]
             prev == ParseUsersWithoutUnionId(SubSeq(rows, 1, Len(rows) - 1))
             employee_number == Strip(row.EmployeeNumber)
         IN  IF employee_number # <<>>
             THEN prev
             ELSE DictPut(prev, row.SamAccountName, UserInfo(row))


\* (variant) a Union ID match is keyed by the freshly assigned login name
MatchedSam_AssignedName(row, sam_acct, eu, uw) ==
    IF row.union_id # <<>> /\ row.union_id \in DOMAIN eu THEN <<sam_acct>>
    ELSE IF sam_acct \in DOMAIN uw THEN <<sam_acct>>
    ELSE <<>>

\* (variant) the login name is looked up before the Union ID
MatchedSam_LoginNameFirst(row, sam_acct, eu, uw) ==
    IF sam_acct \in DOMAIN uw THEN <<sam_acct>>
    ELSE IF row.union_id # <<>> /\ row.union_id \in DOMAIN eu
    THEN <<eu[row.union_id].SamAccountName>>
    ELSE <<>>

\* ------------------------------------------------------------ matching
\* matched_sam after the two-tier lookup: <<>> is None, <<s>> is the string s
MatchedSam(row, sam_acct, eu, uw) ==
    IF row.union_id # <<>> /\ row.union_id \in DOMAIN eu
    THEN <<eu[row.union_id].SamAccountName>>
    ELSE IF sam_acct \in DOMAIN uw THEN <<sam_acct>>
    ELSE <<>>

\* the union ids the row adds to matched_ad_users
ClaimedUnionId(row, sam_acct, eu, uw) ==
    IF row.union_id # <<>> /\ row.union_id \in DOMAIN eu THEN {row.union_id} ELSE {}


\* (variant) a legacy account matched by name is not recorded as claimed
ClaimedSam_NotRecorded(row, sam_acct, eu, uw) == {}

\* the login names the row adds to matched_ad_users_no_uid
ClaimedSam(row, sam_acct, eu, uw) ==
    IF row.union_id # <<>> /\ row.union_id \in DOMAIN eu THEN {}
    ELSE IF sam_acct \in DOMAIN uw THEN {sam_acct}
    ELSE {}

\* `if matched_sam:` -- None and the empty string are both false
Truthy(m) == m # <<>> /\ m[1] # <<>>

\* the dict appended to update_users or new_users
PlanEntry(row, sam) ==
    [SamAccountName |-> sam, EmployeeID |-> row.employee_no, EmployeeNumber |-> row.union_id]

\* (variant) a matched person is appended to new_users as well
SplitRow_AlsoCreated(st, row, users, exc, eu, uw) ==
    LET sam_acct == SamAccountFor(row, users, exc)
        m        == MatchedSam(row, sam_acct, eu, uw)
    IN  [new_users    |-> Append(st.new_users, PlanEntry(row, sam_acct)),
         update_users |-> IF Truthy(m) THEN Append(st.update_users, PlanEntry(row, m[1]))
                          ELSE st.update_users,
         matched_ad_users        |-> st.matched_ad_users \cup ClaimedUnionId(row, sam_acct, eu, uw),
         matched_ad_users_no_uid |-> st.matched_ad_users_no_uid \cup ClaimedSam(row, sam_acct, eu, uw)]

\* one iteration of the loop over feishu_users_list
SplitRow(st, row, users, exc, eu, uw) ==
    LET sam_acct == SamAccountFor(row, users, exc)
        m        == MatchedSam(row, sam_acct, eu, uw)
    IN  [new_users    |-> IF Truthy(m) THEN st.new_users
                          ELSE Append(st.new_users, PlanEntry(row, sam_acct)),
         update_users |-> IF Truthy(m) THEN Append(st.update_users, PlanEntry(row, m[1]))
                          ELSE st.update_users,
         matched_ad_users        |-> st.matched_ad_users \cup ClaimedUnionId(row, sam_acct, eu, uw),
         matched_ad_users_no_uid |-> st.matched_ad_users_no_uid \cup ClaimedSam(row, sam_acct, eu, uw)]

EmptyPlan ==
    [new_users |-> <<>>, update_users |-> <<>>,
     matched_ad_users |-> {}, matched_ad_users_no_uid |-> {}]

\* split_users_for_sync over the first n rows of the roster
RECURSIVE SplitPrefix(_, _, _, _, _)
SplitPrefix(n, users, exc, eu, uw) ==
    IF n = 0 THEN EmptyPlan
    ELSE SplitRow(SplitPrefix(n - 1, users, exc, eu, uw), users[n], users, exc, eu, uw)

split_users_for_sync(users, exc, eu, uw) == SplitPrefix(Len(users), users, exc, eu, uw)

\* (variant) every account without a Union ID is listed, claimed or not
UnmatchedUsers_AllLegacy(eu, uw, matched, matched_no_uid) ==
    {eu[k].SamAccountName : k \in (DOMAIN eu) \ matched}
        \cup {uw[k].SamAccountName : k \in DOMAIN uw}

\* unmatched_users as __main__ lists them (the SamAccountName of each)
UnmatchedUsers(eu, uw, matched, matched_no_uid) ==
    {eu[k].SamAccountName : k \in (DOMAIN eu) \ matched}
        \cup {uw[k].SamAccountName : k \in (DOMAIN uw) \ matched_no_uid}

\* ------------------------------------------------------------ executors
\* create_users.ps1 on ad_new_accounts.csv: every entry becomes an account that
\* carries the assigned login name and the person's Union ID; the directory keeps
\* SamAccountName unique, so an entry whose name is taken is rejected
SamTaken(rows, sam) == \E i \in 1..Len(rows) : rows[i].SamAccountName = sam

RECURSIVE ApplyCreates(_, _)
ApplyCreates(rows, creates) ==
    IF creates = <<>> THEN rows
    ELSE ApplyCreates(
            IF SamTaken(rows, Head(creates).SamAccountName) THEN rows
            ELSE Append(rows, [SamAccountName |-> Head(creates).SamAccountName,
                               EmployeeNumber |-> Head(creates).EmployeeNumber]),
            Tail(creates))

\* update_users.ps1 on ad_update_accounts.csv: the account with the entry's
\* SamAccountName receives the entry's Union ID, entry after entry
RECURSIVE ApplyUpdates(_, _)
ApplyUpdates(rows, updates) ==
    IF updates = <<>> THEN rows
    ELSE ApplyUpdates(
            [i \in 1..Len(rows) |->
                IF rows[i].SamAccountName = Head(updates).SamAccountName
                THEN [rows[i] EXCEPT !.EmployeeNumber = Head(updates).EmployeeNumber]
                ELSE rows[i]],
            Tail(updates))

\* -------------------------------------------------------- OU snapshot
\* (variant) only the scope itself is recognised, not what lies under it
EndsWithUnder_Never(dn, scope) == FALSE

\* dn.endswith(',' + scope): a distinguished name is the sequence of its
\* comma-separated components, so scope is a proper suffix of dn
EndsWithUnder(dn, scope) ==
    /\ Len(dn) > Len(scope)
    /\ SubSeq(dn, Len(dn) - Len(scope) + 1, Len(dn)) = scope

\* existing_ous after reading ExistingOUs.csv (lines 407-426): {DN: name}
RECURSIVE ParseExistingOUs(_, _, _)
ParseExistingOUs(rows, base, excl) ==
    IF rows = <<>> THEN <<>>
    ELSE LET row  == rows[Len(rows)]
             prev == ParseExistingOUs(SubSeq(rows, 1, Len(rows) - 1), base, excl)
             dn   == row.DistinguishedName
         IN  IF dn = base THEN prev
             ELSE IF excl # <<>> /\ (dn = excl \/ EndsWithUnder(dn, excl)) THEN prev
             ELSE DictPut(prev, dn, row.Name)

\* (variant) the difference is taken the other way round
ExtraOUs_Reversed(ous, depts) == depts \ {ous[dn] : dn \in DOMAIN ous}

\* extra_ous of sync_departments: names in AD that no Feishu department has
ExtraOUs(ous, depts) == {ous[dn] : dn \in DOMAIN ous} \ depts

\* ------------------------------------------------------------ transport
\* default max_retries of run_ssh_with_retry and run_scp_with_retry
max_retries == 3

\* what a count query (get_ad_ou_count, get_ad_user_count) comes back with:
\* a number, or an exception (transport failure, unparsable output)
CountResults(n) ==
    {[ok |-> TRUE, count |-> c] : c \in 0..n} \cup {[ok |-> FALSE, count |-> 0]}

\* what execute_on_dc does with one CSV: an upload fails and it returns 0
\* without running the script; the script is run (up to max_retries times, until
\* it exits 0) and a processed count is read from its output; or the transport
\* raises on its last attempt. Of the attempt counts the runs keep the first try
\* and the last one.
ExecRuns(n) ==
    {[kind |-> "upload_failed", attempts |-> 0, count |-> 0]}
        \cup {[kind |-> "ran", attempts |-> a, count |-> c] : a \in {1, max_retries}, c \in 0..n}
        \cup {[kind |-> "raise", attempts |-> a, count |-> 0] : a \in {0, max_retries}}

\* (variant) one hand-off is logged as two invocations
Invocations_Twice(op, dry, run) ==
    IF run.attempts = 0 THEN <<>>
    ELSE << [op |-> op, dry |-> dry, attempts |-> run.attempts],
            [op |-> op, dry |-> dry, attempts |-> run.attempts] >>

\* (variant) the command line is built without the -DryRun flag
Invocations_Unflagged(op, dry, run) ==
    IF run.attempts = 0 THEN <<>> ELSE << [op |-> op, dry |-> FALSE, attempts |-> run.attempts] >>

\* the executor invocations one execute_on_dc (or the CreateOU command) adds to the log
Invocations(op, dry, run) ==
    IF run.attempts = 0 THEN <<>> ELSE << [op |-> op, dry |-> dry, attempts |-> run.attempts] >>

\* (variant) an empty response is taken as yes whatever the default
confirm_EmptyIsYes(dry_run, auto_yes, default, response) ==
    IF dry_run THEN FALSE
    ELSE IF auto_yes THEN TRUE
    ELSE IF response = "" THEN TRUE
    ELSE response \in {"y", "yes"}

\* confirm(prompt, default) for one line of input (already stripped, lower-cased)
confirm(dry_run, auto_yes, default, response) ==
    IF dry_run THEN FALSE
    ELSE IF auto_yes THEN TRUE
    ELSE IF response = "" THEN default
    ELSE response \in {"y", "yes"}

Responses == {"", "y", "yes", "n"}

\* confirm() gets as far as input() (line 232)
ReadsInput(dry_run, auto_yes) == ~dry_run /\ ~auto_yes

\* one call of confirm(): the operation asked about, whether a response was read,
\* the response, and what was returned
NoConfirm == [prompt |-> "none", read |-> FALSE, response |-> "", returned |-> FALSE]
ConfirmCall(prompt, dry_run, auto_yes, default, response) ==
    [prompt   |-> prompt,
     read     |-> ReadsInput(dry_run, auto_yes),
     response |-> IF ReadsInput(dry_run, auto_yes) THEN response ELSE "",
     returned |-> confirm(dry_run, auto_yes, default, response)]


\* (variant) a failed live-count query counts as a pass
CountsMatch_FailureIgnored(q, csv_count) == ~q.ok \/ q.count = csv_count

\* `if actual_count != csv_count: sys.exit(1)` after a count query that returned
CountsMatch(q, csv_count) == q.ok /\ q.count = csv_count


\* (variant) a failed live-count query is read as a count of 0
NothingToExport_FailureIsZero(q) == q.count = 0

\* `if actual_count == 0: return` (else sys.exit(1)) when the download failed
NothingToExport(q) == q.ok /\ q.count = 0

\* what a snapshot's count check saw: nothing yet ("none"), or the query's result
\* next to the rows held ("counted")
NoGate == [check |-> "none", downloaded |-> FALSE, query_ok |-> FALSE,
           actual_count |-> 0, csv_count |-> 0]
Counted(gate, q, csv_count) ==
    [gate EXCEPT !.check = "counted", !.query_ok = q.ok,
                 !.actual_count = q.count, !.csv_count = csv_count]

\* ------------------------------------------------------------- inputs
TokAB  == <<"a", ".", "b">>
TokA1B == <<"a", "1", ".", "b">>
TokC   == <<"c">>
Emp10  == <<"1", "0">>
Emp2   == <<"2">>
Emp9   == <<"9">>
UidU1  == <<"U", "1">>
UidU2  == <<"U", "2">>
\* EmployeeNumber cells as Export-Csv can write them: blank, and padded
UidBlank    == <<" ">>
UidU1Padded == <<" ">> \o UidU1 \o <<" ">>

DnBase   == <<"OU=Corp", "DC=x">>
DnExcl   == <<"OU=Old", "OU=Corp", "DC=x">>
OuRows ==
    {[Name |-> "Corp",   DistinguishedName |-> DnBase],
     [Name |-> "Old",    DistinguishedName |-> DnExcl],
     [Name |-> "Tmp",    DistinguishedName |-> <<"OU=Tmp">> \o DnExcl],
     [Name |-> "Sales",  DistinguishedName |-> <<"OU=Sales">> \o DnBase],
     [Name |-> "Sales",  DistinguishedName |-> <<"OU=Sales", "OU=Legacy">> \o DnBase],
     [Name |-> "Eng",    DistinguishedName |-> <<"OU=Eng">> \o DnBase],
     [Name |-> "Legacy", DistinguishedName |-> <<"OU=Legacy">> \o DnBase]}

\* exports of Get-ADOrganizationalUnit: no distinguished name twice
OuExports(n) ==
    {d \in UNION {[1..k -> OuRows] : k \in 0..n} :
        \A i, j \in 1..Len(d) : i # j => d[i] # d[j]}

\* a Union ID identifies one person, one account
UniqueUnionIds(s, field) ==
    \A i, j \in 1..Len(s) :
        (i # j /\ s[i][field] # <<>>) => s[i][field] # s[j][field]

Rosters(toks, emps, uids, n) ==
    {r \in UNION {[1..k -> [pinyin : toks, employee_no : emps, union_id : uids]] : k \in 0..n} :
        UniqueUnionIds(r, "union_id")}

\* exports that pass the count check: SamAccountName unique, no two rows on one key
AdExports(sams, uids, n) ==
    {d \in UNION {[1..k -> [SamAccountName : sams, EmployeeNumber : uids]] : k \in 0..n} :
        /\ UniqueUnionIds(d, "EmployeeNumber")
        /\ \A i, j \in 1..Len(d) : i # j => d[i].SamAccountName # d[j].SamAccountName}

RowOrders(n) == {f \in [1..n -> 1..n] : \A i, j \in 1..n : i # j => f[i] # f[j]}

\* -------------------------------------------------------------- state
VARIABLES
    feishu_users_list,        \* rows of feishu_users.csv
    PINYIN_EXCEPTIONS,        \* the override table
    ad_rows,                  \* rows of the AD export (the directory's accounts)
    existing_users,           \* snapshot index by Union ID
    users_without_union_id,   \* snapshot index by SamAccountName
    new_users,
    update_users,
    matched_ad_users,
    matched_ad_users_no_uid,
    sam_accounts,             \* sam_account of every row processed so far
    run_no,                   \* 1: first run, 2: the run after the plan was applied
    prev_run,                 \* what run 1 ended with (empty in run 1)
    pc,                       \* where __main__ is
    DRY_RUN,
    AUTO_YES,
    DC_RESIGNED_OU,           \* TRUE: a deactivation-target OU is configured
    DC_EXCLUDE_OU,            \* the excluded OU's distinguished name, <<>> if none
    files_present,            \* feishu_users.csv and feishu_departments.csv exist
    feishu_depts,             \* dept_name column of feishu_departments.csv
    ad_ou_rows,               \* rows of the downloaded ExistingOUs.csv
    existing_ous,             \* sync_departments: {DN: name}
    extra_ous,                \* sync_departments: names to delete
    ou_gate,                  \* the OU snapshot's download and count check
    user_gate,                \* the account snapshot's download and count check
    calls,                    \* executor scripts run on the domain controller, in order
    unmatched_users,          \* SamAccountNames written to ad_unmatched_users.csv
    actual_new_count,
    last_confirm,             \* the confirm() call whose answer the run is acting on
    remote_cleaned,           \* cleanup_remote_files was called
    ssh_closed                \* cleanup_ssh_control_master was called

VARIABLES
    dept_list,                \* rows of feishu_departments.csv
    dept_path_map,            \* {dept_id: path}
    dept_index,               \* rows of dept_list the loop of line 610 has been through
    frames,                   \* dept_id arguments of the build_dept_path calls in progress
    returned                  \* <<>>, or <<v>>: the innermost call just returned v

deptVars == <<dept_list, dept_path_map, dept_index, frames, returned>>

VARIABLES
    ad_extra_ous,             \* sync_departments: the list extra_ous, as written to ad_extra_ous.csv
    plan_log                  \* what each finished planning run was given and what it returned

detVars == <<ad_extra_ous, plan_log>>

VARIABLES
    call_site,                \* the statement that calls run_ssh_with_retry / run_scp_with_retry
    attempt,                  \* the loop variable of `for attempt in range(max_retries)`
    retry_pc,                 \* "idle", "attempt", "sleep", or "done": the function has returned or raised
    events,                   \* the subprocess.run and time.sleep calls made, in order
    result                    \* <<>>, or what the function came back with

retryVars == <<call_site, attempt, retry_pc, events, result>>

VARIABLES
    exceptions_str,           \* os.getenv("PINYIN_EXCEPTIONS", "")
    pairs                     \* the pairs of exceptions_str.split(',') the loop has not taken yet

envVars == <<exceptions_str, pairs>>

\* the state of the parts that are looked at on their own
sideVars == <<detVars, retryVars, envVars>>

planVars == <<feishu_users_list, PINYIN_EXCEPTIONS, ad_rows, existing_users,
              users_without_union_id, new_users, update_users, matched_ad_users,
              matched_ad_users_no_uid, sam_accounts, run_no, prev_run>>

runVars == <<pc, DRY_RUN, AUTO_YES, DC_RESIGNED_OU, DC_EXCLUDE_OU, files_present,
             feishu_depts, ad_ou_rows, existing_ous, extra_ous, ou_gate, user_gate, calls,
             unmatched_users, actual_new_count, remote_cleaned, ssh_closed, deptVars,
             sideVars, last_confirm>>

vars == <<planVars, runVars>>

\* no department table is being resolved
DeptIdle ==
    /\ dept_list = <<>>
    /\ dept_path_map = <<>>
    /\ dept_index = 0
    /\ frames = <<>>
    /\ returned = <<>>

\* no planning run is being compared with another
DetIdle ==
    /\ ad_extra_ous = <<>>
    /\ plan_log = <<>>

\* no remote call is being followed
RetryIdle ==
    /\ call_site = "none"
    /\ attempt = 0
    /\ retry_pc = "idle"
    /\ events = <<>>
    /\ result = <<>>

\* the override table has been read
EnvIdle ==
    /\ exceptions_str = <<>>
    /\ pairs = <<>>

SideIdle == DetIdle /\ RetryIdle /\ EnvIdle

\* rows of the roster the loop has been through
RowsDone == Len(sam_accounts)

PlanInitWith(rosters, exports, tables) ==
    /\ feishu_users_list \in rosters
    /\ PINYIN_EXCEPTIONS \in tables
    /\ ad_rows \in exports
    /\ existing_users = ParseExistingUsers(ad_rows)
    /\ users_without_union_id = ParseUsersWithoutUnionId(ad_rows)
    /\ new_users = <<>>
    /\ update_users = <<>>
    /\ matched_ad_users = {}
    /\ matched_ad_users_no_uid = {}
    /\ sam_accounts = <<>>
    /\ run_no = 1
    /\ prev_run = <<>>
    /\ pc = "split_users_for_sync"
    /\ DRY_RUN = FALSE
    /\ AUTO_YES = FALSE
    /\ DC_RESIGNED_OU = FALSE
    /\ DC_EXCLUDE_OU = <<>>
    /\ files_present = TRUE
    /\ feishu_depts = {}
    /\ ad_ou_rows = <<>>
    /\ existing_ous = <<>>
    /\ extra_ous = {}
    /\ ou_gate = NoGate
    /\ user_gate = NoGate
    /\ calls = <<>>
    /\ unmatched_users = {}
    /\ actual_new_count = 0
    /\ last_confirm = NoConfirm
    /\ remote_cleaned = FALSE
    /\ ssh_closed = FALSE

\* one pass of `for row in feishu_users_list` (lines 629-698)
ProcessRow ==
    /\ RowsDone < Len(feishu_users_list)
    /\ LET row == feishu_users_list[RowsDone + 1]
           st  == SplitRow([new_users |-> new_users, update_users |-> update_users,
                            matched_ad_users |-> matched_ad_users,
                            matched_ad_users_no_uid |-> matched_ad_users_no_uid],
                           row, feishu_users_list, PINYIN_EXCEPTIONS,
                           existing_users, users_without_union_id)
       IN  /\ new_users' = st.new_users
           /\ update_users' = st.update_users
           /\ matched_ad_users' = st.matched_ad_users
           /\ matched_ad_users_no_uid' = st.matched_ad_users_no_uid
           /\ sam_accounts' = Append(sam_accounts,
                                     SamAccountFor(row, feishu_users_list, PINYIN_EXCEPTIONS))
    /\ UNCHANGED <<feishu_users_list, PINYIN_EXCEPTIONS, ad_rows, existing_users,
                   users_without_union_id, run_no, prev_run, runVars>>

\* The executors apply run 1's plan; the next run reads the roster again and the
\* directory as the executors left it.
StartNextRun(roster) ==
    /\ run_no = 1
    /\ RowsDone = Len(feishu_users_list)
    /\ feishu_users_list' = roster
    /\ ad_rows' = ApplyUpdates(ApplyCreates(ad_rows, new_users), update_users)
    /\ existing_users' = ParseExistingUsers(ad_rows')
    /\ users_without_union_id' = ParseUsersWithoutUnionId(ad_rows')
    /\ prev_run' = << [roster |-> feishu_users_list,
                       sam_accounts |-> sam_accounts,
                       created |-> Len(ad_rows') - Len(ad_rows),
                       to_create |-> Len(new_users),
                       unmatched |-> UnmatchedUsers(existing_users, users_without_union_id,
                                                    matched_ad_users, matched_ad_users_no_uid)] >>
    /\ new_users' = <<>>
    /\ update_users' = <<>>
    /\ matched_ad_users' = {}
    /\ matched_ad_users_no_uid' = {}
    /\ sam_accounts' = <<>>
    /\ run_no' = 2
    /\ UNCHANGED <<PINYIN_EXCEPTIONS, runVars>>

\* the roster is unchanged
NextRun == StartNextRun(feishu_users_list)

\* the same people come back in another row order
NextRunReordered ==
    /\ run_no = 1
    /\ RowsDone = Len(feishu_users_list)
    /\ \E f \in RowOrders(Len(feishu_users_list)) :
          /\ \E i \in 1..Len(feishu_users_list) : f[i] # i
          /\ StartNextRun([i \in 1..Len(feishu_users_list) |-> feishu_users_list[f[i]]])

PlanNext == ProcessRow \/ NextRun

NameNext == ProcessRow \/ NextRun \/ NextRunReordered

\* login-name assignment alone: no directory, nobody carries a Union ID
NameInit ==
    /\ PlanInitWith(Rosters({TokAB, TokA1B, TokC}, {Emp10, Emp2, Emp9}, {<<>>}, MaxRoster),
                    {<<>>},
                    {<<>>, TokAB :> TokC})
    /\ DeptIdle
    /\ SideIdle

NameSpec == NameInit /\ [][NameNext]_vars

\* assignment and matching against a directory snapshot
PlanInit ==
    /\ PlanInitWith(Rosters({TokAB, TokA1B}, {Emp10, Emp9}, {<<>>, UidU1, UidU2}, MaxRoster),
                    AdExports({TokAB, TokA1B}, {<<>>, UidU1}, MaxAdRows),
                    {<<>>, TokAB :> TokA1B})
    /\ DeptIdle
    /\ SideIdle

PlanSpec == PlanInit /\ [][PlanNext]_vars

\* ============================================================ __main__
DC_BASE_OU == DnBase

cfgFixed  == <<DRY_RUN, AUTO_YES, DC_RESIGNED_OU, DC_EXCLUDE_OU, PINYIN_EXCEPTIONS,
               feishu_users_list, feishu_depts, run_no, prev_run, deptVars, sideVars>>
cfgVars   == <<cfgFixed, last_confirm>>
ouVars    == <<ad_ou_rows, existing_ous, extra_ous, ou_gate>>
userVars  == <<ad_rows, existing_users, users_without_union_id, user_gate>>
splitVars == <<new_users, update_users, matched_ad_users, matched_ad_users_no_uid,
               sam_accounts, unmatched_users>>
endVars   == <<actual_new_count, remote_cleaned, ssh_closed>>

Init ==
    /\ pc = "start"
    /\ DRY_RUN \in BOOLEAN
    /\ AUTO_YES \in BOOLEAN
    /\ DC_RESIGNED_OU \in BOOLEAN
    /\ DC_EXCLUDE_OU \in {<<>>, DnExcl}
    /\ files_present \in BOOLEAN
    /\ feishu_depts = {"Sales", "Eng"}
    /\ feishu_users_list \in Rosters({TokAB}, {Emp9}, {<<>>, UidU1}, MaxRunRows)
    /\ PINYIN_EXCEPTIONS = <<>>
    /\ ad_rows = <<>>
    /\ existing_users = <<>>
    /\ users_without_union_id = <<>>
    /\ new_users = <<>>
    /\ update_users = <<>>
    /\ matched_ad_users = {}
    /\ matched_ad_users_no_uid = {}
    /\ sam_accounts = <<>>
    /\ run_no = 1
    /\ prev_run = <<>>
    /\ ad_ou_rows = <<>>
    /\ existing_ous = <<>>
    /\ extra_ous = {}
    /\ ou_gate = NoGate
    /\ user_gate = NoGate
    /\ calls = <<>>
    /\ unmatched_users = {}
    /\ actual_new_count = 0
    /\ last_confirm = NoConfirm
    /\ remote_cleaned = FALSE
    /\ ssh_closed = FALSE
    /\ DeptIdle
    /\ SideIdle

\* step 0 (lines 1073-1088): fetch_feishu_data.py is run when forced by -y or when
\* a file is missing; after it succeeded both files exist
FetchFeishuData ==
    /\ pc = "start"
    /\ IF AUTO_YES \/ ~files_present
       THEN \E returncode \in {0, 1} :
               IF returncode # 0
               THEN pc' = "fatal" /\ UNCHANGED files_present
               ELSE pc' = "check_dc_permissions" /\ files_present' = TRUE
       ELSE pc' = "check_dc_permissions" /\ UNCHANGED files_present
    /\ UNCHANGED <<cfgVars, ouVars, userVars, splitVars, endVars, calls>>

\* lines 1090-1097: init_dc_user_home exits, or check_dc_permissions returns False
check_dc_permissions ==
    /\ pc = "check_dc_permissions"
    /\ \E ok \in BOOLEAN : pc' = IF ok THEN "upload_dc_config" ELSE "fatal"
    /\ UNCHANGED <<cfgVars, ouVars, userVars, splitVars, endVars, calls, files_present>>

\* lines 1099-1101: the scp result is not looked at; an exception is not caught
upload_dc_config ==
    /\ pc = "upload_dc_config"
    /\ \E raised \in BOOLEAN : pc' = IF raised THEN "crash" ELSE "sync_departments"
    /\ UNCHANGED <<cfgVars, ouVars, userVars, splitVars, endVars, calls, files_present>>

\* sync_departments up to the download in get_existing_ad_departments (lines 933-950,
\* 328-405): without the department file it returns at once
ExportOUs ==
    /\ pc = "sync_departments"
    /\ IF ~files_present
       THEN pc' = "get_existing_ad_users" /\ UNCHANGED ouVars
       ELSE \E t \in {"downloaded", "nonzero", "raise"} :
               CASE t = "raise" -> pc' = "crash" /\ UNCHANGED ouVars
                 [] t = "nonzero" ->
                        /\ pc' = "ou_count_fallback"
                        /\ UNCHANGED ouVars
                 [] t = "downloaded" ->
                        /\ \E rows \in OuExports(MaxOuRows) : ad_ou_rows' = rows
                        /\ ou_gate' = [ou_gate EXCEPT !.downloaded = TRUE]
                        /\ pc' = "ou_parse"
                        /\ UNCHANGED <<existing_ous, extra_ous>>
    /\ UNCHANGED <<cfgVars, userVars, splitVars, endVars, calls, files_present>>

\* lines 386-401: the download failed; only a live count of 0 lets the run go on
OuCountFallback ==
    /\ pc = "ou_count_fallback"
    /\ \E q \in CountResults(MaxOuRows) :
          /\ ou_gate' = Counted(ou_gate, q, 0)
          /\ pc' = IF NothingToExport(q) THEN "ou_diff" ELSE "fatal"
    /\ existing_ous' = <<>>
    /\ UNCHANGED <<cfgVars, userVars, splitVars, endVars, calls, files_present,
                   ad_ou_rows, extra_ous>>

\* lines 407-426, 445-447: read and filter the export; an unreadable file is fatal
ParseOUs ==
    /\ pc = "ou_parse"
    /\ \E readable \in BOOLEAN :
          IF readable
          THEN /\ existing_ous' = ParseExistingOUs(ad_ou_rows, DC_BASE_OU, DC_EXCLUDE_OU)
               /\ pc' = "ou_verify"
          ELSE /\ pc' = "fatal"
               /\ UNCHANGED existing_ous
    /\ UNCHANGED <<cfgVars, userVars, splitVars, endVars, calls, files_present,
                   ad_ou_rows, extra_ous, ou_gate>>

\* lines 428-444: compare the live OU count with the rows kept
VerifyOUs ==
    /\ pc = "ou_verify"
    /\ \E q \in CountResults(MaxOuRows) :
          LET csv_count == Cardinality(DOMAIN existing_ous)
          IN  /\ ou_gate' = Counted(ou_gate, q, csv_count)
              /\ pc' = IF CountsMatch(q, csv_count) THEN "ou_diff" ELSE "fatal"
    /\ UNCHANGED <<cfgVars, userVars, splitVars, endVars, calls, files_present,
                   ad_ou_rows, existing_ous, extra_ous>>

\* lines 951-967: the OU diff
OuDiff ==
    /\ pc = "ou_diff"
    /\ extra_ous' = ExtraOUs(existing_ous, feishu_depts)
    /\ pc' = IF extra_ous' # {} THEN "ou_confirm" ELSE "create_ou"
    /\ UNCHANGED <<cfgVars, userVars, splitVars, endVars, calls, files_present,
                   ad_ou_rows, existing_ous, ou_gate>>

\* line 970: not DRY_RUN and confirm(..., default=False); in a dry run confirm()
\* is not called
ConfirmDeleteOUs ==
    /\ pc = "ou_confirm"
    /\ IF DRY_RUN
       THEN pc' = "create_ou" /\ UNCHANGED last_confirm
       ELSE \E response \in Responses :
               /\ last_confirm' = ConfirmCall("DeleteOUs", DRY_RUN, AUTO_YES, FALSE, response)
               /\ pc' = IF last_confirm'.returned THEN "delete_extra_ous" ELSE "create_ou"
    /\ UNCHANGED <<cfgFixed, ouVars, userVars, splitVars, endVars, calls, files_present>>

\* lines 919-931: execute_on_dc('DeleteOUs', ...)
delete_extra_ous ==
    /\ pc = "delete_extra_ous"
    /\ \E run \in ExecRuns(0) :
          /\ calls' = calls \o Invocations("DeleteOUs", DRY_RUN, run)
          /\ pc' = IF run.kind = "raise" THEN "crash" ELSE "create_ou"
    /\ UNCHANGED <<cfgVars, ouVars, userVars, splitVars, endVars, files_present>>

\* lines 973-1006: upload the department file and run CreateOU.ps1; the uploads'
\* results are not looked at, a missing create_ou.ps1 is fatal.  sync_departments
\* returns here and its locals (the export, the dict, the diff) are gone
CreateOUs ==
    /\ pc = "create_ou"
    /\ \E script_exists \in BOOLEAN :
          IF ~script_exists
          THEN pc' = "fatal" /\ UNCHANGED <<calls, ouVars>>
          ELSE \E run \in {r \in ExecRuns(0) : r.kind # "upload_failed"} :
                  /\ calls' = calls \o Invocations("CreateOU", DRY_RUN, run)
                  /\ IF run.kind = "raise"
                     THEN pc' = "crash" /\ UNCHANGED ouVars
                     ELSE /\ pc' = "get_existing_ad_users"
                          /\ ad_ou_rows' = <<>>
                          /\ existing_ous' = <<>>
                          /\ extra_ous' = {}
                          /\ UNCHANGED ou_gate
    /\ last_confirm' = IF pc' = "get_existing_ad_users" THEN NoConfirm ELSE last_confirm
    /\ UNCHANGED <<cfgFixed, userVars, splitVars, endVars, files_present>>

\* get_existing_ad_users up to the download (lines 451-497): a missing
\* export_users.ps1 and a transport exception are fatal
ExportUsers ==
    /\ pc = "get_existing_ad_users"
    /\ \E t \in {"script_missing", "raise", "nonzero", "downloaded"} :
          CASE t \in {"script_missing", "raise"} -> pc' = "fatal" /\ UNCHANGED userVars
            [] t = "nonzero" -> pc' = "user_count_fallback" /\ UNCHANGED userVars
            [] t = "downloaded" ->
                   /\ \E rows \in AdExports({TokAB, TokC}, {<<>>, UidBlank, UidU1Padded}, MaxRunAdRows) :
                         ad_rows' = rows
                   /\ user_gate' = [user_gate EXCEPT !.downloaded = TRUE]
                   /\ pc' = "user_parse"
                   /\ UNCHANGED <<existing_users, users_without_union_id>>
    /\ UNCHANGED <<cfgVars, ouVars, splitVars, endVars, calls, files_present>>

\* lines 478-493: the download failed; only a live count of 0 lets the run go on
UserCountFallback ==
    /\ pc = "user_count_fallback"
    /\ \E q \in CountResults(MaxRunAdRows) :
          /\ user_gate' = Counted(user_gate, q, 0)
          /\ pc' = IF NothingToExport(q) THEN "split_users_for_sync" ELSE "fatal"
    /\ existing_users' = <<>>
    /\ users_without_union_id' = <<>>
    /\ UNCHANGED <<cfgVars, ouVars, splitVars, endVars, calls, files_present, ad_rows>>

\* lines 499-553: read the export into the two indexes; no encoding works: fatal
ParseUsers ==
    /\ pc = "user_parse"
    /\ \E readable \in BOOLEAN :
          IF readable
          THEN /\ existing_users' = ParseExistingUsers(ad_rows)
               /\ users_without_union_id' = ParseUsersWithoutUnionId(ad_rows)
               /\ pc' = "user_verify"
          ELSE /\ pc' = "fatal"
               /\ UNCHANGED <<existing_users, users_without_union_id>>
    /\ UNCHANGED <<cfgVars, ouVars, splitVars, endVars, calls, files_present,
                   ad_rows, user_gate>>

\* lines 555-573: compare the live account count with the rows held
VerifyUsers ==
    /\ pc = "user_verify"
    /\ \E q \in CountResults(MaxRunAdRows) :
          LET csv_count == Cardinality(DOMAIN existing_users)
                               + Cardinality(DOMAIN users_without_union_id)
          IN  /\ user_gate' = Counted(user_gate, q, csv_count)
              /\ pc' = IF CountsMatch(q, csv_count) THEN "split_users_for_sync" ELSE "fatal"
    /\ UNCHANGED <<cfgVars, ouVars, splitVars, endVars, calls, files_present,
                   ad_rows, existing_users, users_without_union_id>>

\* lines 1113-1119: the plan
SplitUsers ==
    /\ pc = "split_users_for_sync"
    /\ LET plan == split_users_for_sync(feishu_users_list, PINYIN_EXCEPTIONS,
                                        existing_users, users_without_union_id)
       IN  /\ new_users' = plan.new_users
           /\ update_users' = plan.update_users
           /\ matched_ad_users' = plan.matched_ad_users
           /\ matched_ad_users_no_uid' = plan.matched_ad_users_no_uid
    /\ sam_accounts' = [i \in 1..Len(feishu_users_list) |->
                           SamAccountFor(feishu_users_list[i], feishu_users_list,
                                         PINYIN_EXCEPTIONS)]
    /\ pc' = "unmatched"
    /\ UNCHANGED <<cfgVars, ouVars, userVars, endVars, calls, files_present, unmatched_users>>

\* lines 1121-1165 up to the prompt: count and list the accounts nobody matched
ListUnmatched ==
    /\ pc = "unmatched"
    /\ LET total_ad_users     == Cardinality(DOMAIN existing_users)
                                     + Cardinality(DOMAIN users_without_union_id)
           total_matched      == Cardinality(matched_ad_users)
                                     + Cardinality(matched_ad_users_no_uid)
           unmatched_ad_count == total_ad_users - total_matched
       IN  IF unmatched_ad_count > 0
           THEN /\ unmatched_users' = UnmatchedUsers(existing_users, users_without_union_id,
                                                     matched_ad_users, matched_ad_users_no_uid)
                /\ pc' = IF ~DRY_RUN /\ DC_RESIGNED_OU THEN "confirm_resign" ELSE "sync_check"
           ELSE /\ pc' = "sync_check"
                /\ UNCHANGED unmatched_users
    /\ UNCHANGED <<cfgVars, ouVars, userVars, endVars, calls, files_present, new_users,
                   update_users, matched_ad_users, matched_ad_users_no_uid, sam_accounts>>

\* line 1158: confirm(..., default=False)
ConfirmResign ==
    /\ pc = "confirm_resign"
    /\ \E response \in Responses :
          /\ last_confirm' = ConfirmCall("ResignUsers", DRY_RUN, AUTO_YES, FALSE, response)
          /\ pc' = IF last_confirm'.returned THEN "process_unmatched_users" ELSE "sync_check"
    /\ UNCHANGED <<cfgFixed, ouVars, userVars, splitVars, endVars, calls, files_present>>

\* lines 902-917: execute_on_dc('ResignUsers', ...)
process_unmatched_users ==
    /\ pc = "process_unmatched_users"
    /\ \E run \in ExecRuns(Cardinality(unmatched_users)) :
          /\ calls' = calls \o Invocations("ResignUsers", DRY_RUN, run)
          /\ pc' = IF run.kind = "raise" THEN "crash" ELSE "sync_check"
    /\ UNCHANGED <<cfgVars, ouVars, userVars, splitVars, endVars, files_present>>

\* lines 1167-1169: nothing to create or update: sys.exit(0)
SyncCheck ==
    /\ pc = "sync_check"
    /\ pc' = IF Len(new_users) = 0 /\ Len(update_users) = 0 THEN "exit0" ELSE "create"
    /\ last_confirm' = NoConfirm
    /\ UNCHANGED <<cfgFixed, ouVars, userVars, splitVars, endVars, calls, files_present>>

\* lines 1171-1178: execute_on_dc('CreateAccounts', ...)
CreateAccounts ==
    /\ pc = "create"
    /\ IF Len(new_users) > 0
       THEN \E run \in ExecRuns(Len(new_users)) :
               /\ calls' = calls \o Invocations("CreateAccounts", DRY_RUN, run)
               /\ actual_new_count' = run.count
               /\ pc' = IF run.kind = "raise" THEN "crash"
                        ELSE IF run.count > 0 /\ ~DRY_RUN THEN "download_passwords"
                        ELSE "update"
       ELSE pc' = "update" /\ UNCHANGED <<calls, actual_new_count>>
    /\ UNCHANGED <<cfgVars, ouVars, userVars, splitVars, files_present,
                   remote_cleaned, ssh_closed>>

\* lines 825-840: the password file is fetched and mailed; exceptions are not caught
download_passwords ==
    /\ pc = "download_passwords"
    /\ \E raised \in BOOLEAN : pc' = IF raised THEN "crash" ELSE "update"
    /\ UNCHANGED <<cfgVars, ouVars, userVars, splitVars, endVars, calls, files_present>>

\* lines 1180-1184: execute_on_dc('UpdateAccounts', ...)
UpdateAccounts ==
    /\ pc = "update"
    /\ IF Len(update_users) > 0
       THEN \E run \in ExecRuns(Len(update_users)) :
               /\ calls' = calls \o Invocations("UpdateAccounts", DRY_RUN, run)
               /\ pc' = IF run.kind = "raise" THEN "crash" ELSE "cleanup_remote_files"
       ELSE pc' = "cleanup_remote_files" /\ UNCHANGED calls
    /\ UNCHANGED <<cfgVars, ouVars, userVars, splitVars, endVars, files_present>>

\* lines 1201-1203, 1008-1034: every exception is swallowed
cleanup_remote_files ==
    /\ pc = "cleanup_remote_files"
    /\ remote_cleaned' = TRUE
    /\ pc' = "cleanup_ssh_control_master"
    /\ UNCHANGED <<cfgVars, ouVars, userVars, splitVars, calls, files_present,
                   actual_new_count, ssh_closed>>

\* lines 1205-1206, 94-97; the notification that follows changes nothing here
cleanup_ssh_control_master ==
    /\ pc = "cleanup_ssh_control_master"
    /\ ssh_closed' = TRUE
    /\ pc' = "done"
    /\ UNCHANGED <<cfgVars, ouVars, userVars, splitVars, calls, files_present,
                   actual_new_count, remote_cleaned>>

Next ==
    \/ FetchFeishuData \/ check_dc_permissions \/ upload_dc_config
    \/ ExportOUs \/ OuCountFallback \/ ParseOUs \/ VerifyOUs \/ OuDiff
    \/ ConfirmDeleteOUs \/ delete_extra_ous \/ CreateOUs
    \/ ExportUsers \/ UserCountFallback \/ ParseUsers \/ VerifyUsers
    \/ SplitUsers \/ ListUnmatched \/ ConfirmResign \/ process_unmatched_users
    \/ SyncCheck \/ CreateAccounts \/ download_passwords \/ UpdateAccounts
    \/ cleanup_remote_files \/ cleanup_ssh_control_master

Spec == Init /\ [][Next]_vars

\* ================================================ department paths
\* next((d for d in dept_list if d['dept_id'] == dept_id), None): <<>> is None
FindDept(dept_id, depts) ==
    LET hits == {i \in 1..Len(depts) : depts[i].dept_id = dept_id}
    IN  IF hits = {} THEN <<>>
        ELSE << depts[CHOOSE i \in hits : \A j \in hits : i <= j] >>

\* (variant) the department's own name is put in front of its parent's path
JoinPath_ChildFirst(parent_path, dept_name) ==
    IF parent_path # <<>> THEN dept_name \o <<"\\">> \o parent_path ELSE dept_name

\* f"{parent_path}\\{dept_name}" if parent_path else dept_name  (line 606)
JoinPath(parent_path, dept_name) ==
    IF parent_path # <<>> THEN parent_path \o <<"\\">> \o dept_name ELSE dept_name

\* dept_path_map.get(dept_id, '') if dept_id else ''  (line 639)
dept_path(dept_id) ==
    IF dept_id # "" /\ dept_id \in DOMAIN dept_path_map THEN dept_path_map[dept_id] ELSE <<>>

\* department ids and names of the tables: "0" is the root, "9" has no row
DeptIdPool == <<"1", "2", "3", "4", "5">>
DeptIds    == {"0"} \cup {DeptIdPool[i] : i \in 1..MaxDepts}
DeptName(dept_id) ==
    CASE dept_id = "0" -> <<"R">> [] dept_id = "1" -> <<"E">> [] dept_id = "2" -> <<"B">>
      [] dept_id = "3" -> <<"C">> [] dept_id = "4" -> <<"D">> [] OTHER -> <<"F">>
DeptParents == DeptIds \cup {"9"}

\* the place of an id in the order of the ids
DeptIdRank(dept_id) ==
    IF dept_id = "0" THEN 0 ELSE CHOOSE i \in 1..Len(DeptIdPool) : DeptIdPool[i] = dept_id

\* the dept_id column of a table: no id twice; the rows come parents-first or
\* children-first by id (the loop of line 610 takes them in file order)
DeptIdColumns(n) ==
    {s \in UNION {[1..k -> DeptIds] : k \in 0..n} :
        \/ \A i \in 1..(Len(s) - 1) : DeptIdRank(s[i]) < DeptIdRank(s[i + 1])
        \/ \A i \in 1..(Len(s) - 1) : DeptIdRank(s[i]) > DeptIdRank(s[i + 1])}

\* department tables as csv.DictReader delivers them, with any parent per row
DeptTables(n) ==
    UNION {{[i \in 1..Len(s) |->
                [dept_id |-> s[i], parent_dept_id |-> p[i], dept_name |-> DeptName(s[i])]] :
              p \in [1..Len(s) -> DeptParents]} : s \in DeptIdColumns(n)}

\* what the run holds besides the plan, the department table and its position
restVars == <<DRY_RUN, AUTO_YES, DC_RESIGNED_OU, DC_EXCLUDE_OU, files_present, feishu_depts,
              ouVars, user_gate, calls, unmatched_users, endVars, sideVars, last_confirm>>

PathInit ==
    /\ PlanInitWith({<<>>}, {<<>>}, {<<>>})
    /\ SideIdle
    /\ dept_list \in DeptTables(MaxDepts)
    /\ dept_path_map = <<>>
    /\ dept_index = 0
    /\ frames = <<>>
    /\ returned = <<>>

\* lines 610-612: the loop calls build_dept_path for the next row
BuildNextPath ==
    /\ pc = "split_users_for_sync"
    /\ frames = <<>> /\ returned = <<>>
    /\ dept_index < Len(dept_list)
    /\ frames' = <<dept_list[dept_index + 1].dept_id>>
    /\ UNCHANGED <<dept_list, dept_path_map, dept_index, returned, planVars, restVars, pc>>

\* lines 592-605: the call on top starts: it returns at once, or calls itself for
\* the parent; beyond the interpreter's limit that call raises RecursionError,
\* which nothing up to __main__ catches
build_dept_path ==
    /\ pc = "split_users_for_sync"
    /\ frames # <<>> /\ returned = <<>>
    /\ LET dept_id == frames[Len(frames)]
           dept    == FindDept(dept_id, dept_list)
           callers == SubSeq(frames, 1, Len(frames) - 1)
       IN  IF dept_id = "0"
           THEN frames' = callers /\ returned' = << <<>> >> /\ UNCHANGED pc
           ELSE IF dept = <<>>
           THEN frames' = callers /\ returned' = << <<>> >> /\ UNCHANGED pc
           ELSE IF dept[1].parent_dept_id = "0"
           THEN frames' = callers /\ returned' = << dept[1].dept_name >> /\ UNCHANGED pc
           ELSE IF Len(frames) >= RecursionLimit
           THEN pc' = "crash" /\ UNCHANGED <<frames, returned>>
           ELSE /\ frames' = Append(frames, dept[1].parent_dept_id)
                /\ UNCHANGED <<returned, pc>>
    /\ UNCHANGED <<dept_list, dept_path_map, dept_index, planVars, restVars>>

\* lines 605-606: the call for the parent has returned to the call on top
ReturnToCaller ==
    /\ pc = "split_users_for_sync"
    /\ frames # <<>> /\ returned # <<>>
    /\ LET dept == FindDept(frames[Len(frames)], dept_list)
       IN  returned' = << JoinPath(returned[1], dept[1].dept_name) >>
    /\ frames' = SubSeq(frames, 1, Len(frames) - 1)
    /\ UNCHANGED <<dept_list, dept_path_map, dept_index, planVars, restVars, pc>>

\* line 612: dept_path_map[dept_id] = the outermost call's result
StorePath ==
    /\ pc = "split_users_for_sync"
    /\ frames = <<>> /\ returned # <<>>
    /\ dept_path_map' = DictPut(dept_path_map, dept_list[dept_index + 1].dept_id, returned[1])
    /\ dept_index' = dept_index + 1
    /\ returned' = <<>>
    /\ UNCHANGED <<dept_list, frames, planVars, restVars, pc>>

PathNext == BuildNextPath \/ build_dept_path \/ ReturnToCaller \/ StorePath

PathSpec == PathInit /\ [][PathNext]_vars

\* ============================================== the planner, run twice
\* the orders in which `for x in s` can go through the set s: the order of a set
\* of str follows the strings' hashes, which are salted anew in every process
SetOrders(S) ==
    {f \in [1..Cardinality(S) -> S] : \A i, j \in 1..Cardinality(S) : i # j => f[i] # f[j]}

\* lines 951-957: extra_ous built by going through ad_dept_names in the order given
ExtraOuList(order, depts) == SelectSeq(order, LAMBDA ou_name : ou_name \notin depts)

\* what the planner was handed and what it produced
PlanRecord ==
    [roster |-> feishu_users_list, existing_users |-> existing_users,
     users_without_union_id |-> users_without_union_id,
     ad_depts_dict |-> existing_ous, feishu_depts |-> feishu_depts,
     to_create |-> new_users, to_update |-> update_users,
     matched_ad_users |-> matched_ad_users,
     matched_ad_users_no_uid |-> matched_ad_users_no_uid,
     extra_ous |-> ad_extra_ous]

planOuts == <<new_users, update_users, matched_ad_users, matched_ad_users_no_uid, sam_accounts>>
planIns  == <<feishu_users_list, PINYIN_EXCEPTIONS, ad_rows, existing_users,
              users_without_union_id, existing_ous, feishu_depts>>
detRest  == <<prev_run, DRY_RUN, AUTO_YES, DC_RESIGNED_OU, DC_EXCLUDE_OU, files_present,
              ad_ou_rows, extra_ous, ou_gate, user_gate, calls, unmatched_users, endVars,
              deptVars, retryVars, envVars, last_confirm>>

\* the planner's inputs: a roster, the two account indexes and the OU dict
DetInit ==
    /\ feishu_users_list \in Rosters({TokAB}, {Emp9}, {<<>>, UidU1}, MaxRunRows)
    /\ PINYIN_EXCEPTIONS = <<>>
    /\ ad_rows \in AdExports({TokAB, TokC}, {<<>>, UidU1}, MaxRunAdRows)
    /\ existing_users = ParseExistingUsers(ad_rows)
    /\ users_without_union_id = ParseUsersWithoutUnionId(ad_rows)
    /\ \E rows \in OuExports(MaxOuRows) :
          existing_ous = ParseExistingOUs(rows, DC_BASE_OU, <<>>)
    /\ feishu_depts = {"Eng"}
    /\ new_users = <<>>
    /\ update_users = <<>>
    /\ matched_ad_users = {}
    /\ matched_ad_users_no_uid = {}
    /\ sam_accounts = <<>>
    /\ run_no = 1
    /\ prev_run = <<>>
    /\ pc = "sync_departments"
    /\ DRY_RUN = TRUE
    /\ AUTO_YES = FALSE
    /\ DC_RESIGNED_OU = FALSE
    /\ DC_EXCLUDE_OU = <<>>
    /\ files_present = TRUE
    /\ ad_ou_rows = <<>>
    /\ extra_ous = {}
    /\ ou_gate = NoGate
    /\ user_gate = NoGate
    /\ calls = <<>>
    /\ unmatched_users = {}
    /\ actual_new_count = 0
    /\ last_confirm = NoConfirm
    /\ remote_cleaned = FALSE
    /\ ssh_closed = FALSE
    /\ DeptIdle
    /\ SideIdle

\* lines 949-957: ad_dept_names = set(ad_depts_dict.values()) and the loop over it
DiffOUs ==
    /\ pc = "sync_departments"
    /\ \E order \in SetOrders({existing_ous[dn] : dn \in DOMAIN existing_ous}) :
          ad_extra_ous' = ExtraOuList(order, feishu_depts)
    /\ pc' = "split_users_for_sync"
    /\ UNCHANGED <<planIns, planOuts, run_no, plan_log, detRest>>

\* line 1118: split_users_for_sync on the roster and the two indexes
PlanUsers ==
    /\ pc = "split_users_for_sync"
    /\ LET plan == split_users_for_sync(feishu_users_list, PINYIN_EXCEPTIONS,
                                        existing_users, users_without_union_id)
       IN  /\ new_users' = plan.new_users
           /\ update_users' = plan.update_users
           /\ matched_ad_users' = plan.matched_ad_users
           /\ matched_ad_users_no_uid' = plan.matched_ad_users_no_uid
    /\ sam_accounts' = [i \in 1..Len(feishu_users_list) |->
                           SamAccountFor(feishu_users_list[i], feishu_users_list,
                                         PINYIN_EXCEPTIONS)]
    /\ pc' = "planned"
    /\ UNCHANGED <<planIns, run_no, detVars, detRest>>

\* the planner has returned: keep what it was given and what it produced
RecordPlan ==
    /\ pc = "planned"
    /\ plan_log' = Append(plan_log, PlanRecord)
    /\ pc' = "recorded"
    /\ UNCHANGED <<planIns, planOuts, run_no, ad_extra_ous, detRest>>

\* the program is started once more on the same files and the same directory
RunAgain ==
    /\ pc = "recorded"
    /\ run_no = 1
    /\ run_no' = 2
    /\ new_users' = <<>>
    /\ update_users' = <<>>
    /\ matched_ad_users' = {}
    /\ matched_ad_users_no_uid' = {}
    /\ sam_accounts' = <<>>
    /\ ad_extra_ous' = <<>>
    /\ pc' = "sync_departments"
    /\ UNCHANGED <<planIns, plan_log, detRest>>

DetNext == DiffOUs \/ PlanUsers \/ RecordPlan \/ RunAgain

DetSpec == DetInit /\ [][DetNext]_vars

\* ==================================================== remote calls
\* the calls of get_existing_ad_users (lines 465-476) and of sync_departments
\* (lines 973-990), with the function each one uses
CallSites ==
    {[site |-> "upload ExportUsers.ps1",     fn |-> "scp", caller |-> "get_existing_ad_users"],
     [site |-> "run ExportUsers.ps1",        fn |-> "ssh", caller |-> "get_existing_ad_users"],
     [site |-> "download ExportedUsers.csv", fn |-> "scp", caller |-> "get_existing_ad_users"],
     [site |-> "upload feishu_departments.csv", fn |-> "scp", caller |-> "sync_departments"],
     [site |-> "upload CreateOU.ps1",        fn |-> "scp", caller |-> "sync_departments"],
     [site |-> "run CreateOU.ps1",           fn |-> "ssh", caller |-> "sync_departments"]}

\* how one subprocess.run can end: exit code 0, another exit code, the timeout
\* (run_ssh_with_retry passes one, run_scp_with_retry does not), another exception
Outcomes(fn) ==
    IF fn = "ssh" THEN {"zero", "nonzero", "timeout", "exception"}
    ELSE {"zero", "nonzero", "exception"}

\* (variant) the delay is taken after every failed attempt
SleepsAfter_Always(a, retries) == TRUE

\* `if attempt < max_retries - 1: time.sleep(2)`
SleepsAfter(a, retries) == a < retries - 1

callRest == <<planVars, DRY_RUN, AUTO_YES, DC_RESIGNED_OU, DC_EXCLUDE_OU, files_present,
              feishu_depts, ouVars, user_gate, calls, unmatched_users, endVars, deptVars,
              detVars, envVars, last_confirm>>

\* the run is about to make one of the calls
CallInit ==
    /\ feishu_users_list = <<>>
    /\ PINYIN_EXCEPTIONS = <<>>
    /\ ad_rows = <<>>
    /\ existing_users = <<>>
    /\ users_without_union_id = <<>>
    /\ new_users = <<>>
    /\ update_users = <<>>
    /\ matched_ad_users = {}
    /\ matched_ad_users_no_uid = {}
    /\ sam_accounts = <<>>
    /\ run_no = 1
    /\ prev_run = <<>>
    /\ DRY_RUN = FALSE
    /\ AUTO_YES = FALSE
    /\ DC_RESIGNED_OU = FALSE
    /\ DC_EXCLUDE_OU = <<>>
    /\ files_present = TRUE
    /\ feishu_depts = {}
    /\ ad_ou_rows = <<>>
    /\ existing_ous = <<>>
    /\ extra_ous = {}
    /\ ou_gate = NoGate
    /\ user_gate = NoGate
    /\ calls = <<>>
    /\ unmatched_users = {}
    /\ actual_new_count = 0
    /\ last_confirm = NoConfirm
    /\ remote_cleaned = FALSE
    /\ ssh_closed = FALSE
    /\ DeptIdle
    /\ DetIdle
    /\ EnvIdle
    /\ call_site \in CallSites
    /\ pc = call_site.caller
    /\ attempt = 0
    /\ retry_pc = "attempt"
    /\ events = <<>>
    /\ result = <<>>

\* one pass of the loop of run_ssh_with_retry (lines 123-139) or run_scp_with_retry
\* (lines 144-155) up to the delay: the command is run; exit code 0 returns at once;
\* a failure that is not the last goes on to the delay; the last failure ends the
\* loop (`return result`, line 140 / 156) or is raised again
run_with_retry ==
    /\ retry_pc = "attempt"
    /\ attempt < max_retries
    /\ \E outcome \in Outcomes(call_site.fn) :
          /\ events' = Append(events, [call |-> "subprocess.run", attempt |-> attempt,
                                        outcome |-> outcome])
          /\ IF outcome = "zero"
             THEN /\ result' = << [kind |-> "returned", returncode |-> 0] >>
                  /\ retry_pc' = "done"
                  /\ UNCHANGED attempt
             ELSE IF SleepsAfter(attempt, max_retries)
             THEN /\ retry_pc' = "sleep"
                  /\ UNCHANGED <<attempt, result>>
             ELSE /\ retry_pc' = "done"
                  /\ attempt' = attempt + 1
                  /\ result' = IF outcome = "nonzero"
                                THEN << [kind |-> "returned", returncode |-> 1] >>
                                ELSE << [kind |-> "raised", returncode |-> 0] >>
    /\ UNCHANGED <<call_site, pc, callRest>>

\* time.sleep(2), then the next pass
Sleep ==
    /\ retry_pc = "sleep"
    /\ events' = Append(events, [call |-> "time.sleep", attempt |-> attempt, outcome |-> "2"])
    /\ attempt' = attempt + 1
    /\ retry_pc' = "attempt"
    /\ UNCHANGED <<call_site, result, pc, callRest>>

\* what the calling statement does with what came back.  get_existing_ad_users:
\* every exception ends in sys.exit(1) (lines 494-497); only the download's exit
\* code is looked at (line 478), and a failed download goes to the count query.
\* sync_departments: no exit code is looked at and no exception is caught.
CallerGoesOn ==
    /\ retry_pc = "done"
    /\ pc = call_site.caller
    /\ pc' = IF result[1].kind = "raised"
             THEN IF call_site.caller = "get_existing_ad_users" THEN "fatal" ELSE "crash"
             ELSE IF /\ call_site.site = "download ExportedUsers.csv"
                     /\ result[1].returncode # 0
             THEN "user_count_fallback"
             ELSE "next statement"
    /\ UNCHANGED <<retryVars, callRest>>

CallNext == run_with_retry \/ Sleep \/ CallerGoesOn

CallSpec == CallInit /\ [][CallNext]_vars

\* ================================================ the override table
\* str.split(sep) for a one-character separator (always at least one part)
RECURSIVE SplitAt(_, _)
SplitAt(s, sep) ==
    IF s = <<>> THEN << <<>> >>
    ELSE IF Head(s) = sep THEN << <<>> >> \o SplitAt(Tail(s), sep)
    ELSE LET rest == SplitAt(Tail(s), sep)
         IN  << <<Head(s)>> \o Head(rest) >> \o Tail(rest)

\* `'=' in pair`
HasEquals(pair) == \E i \in 1..Len(pair) : pair[i] = "="

EnvChars == {"a", "b", "=", ",", " "}
EnvStrings(n) == UNION {[1..k -> EnvChars] : k \in 0..n}

envRest == <<feishu_users_list, ad_rows, existing_users, users_without_union_id, new_users,
             update_users, matched_ad_users, matched_ad_users_no_uid, sam_accounts, run_no,
             prev_run, DRY_RUN, AUTO_YES, DC_RESIGNED_OU, DC_EXCLUDE_OU, files_present,
             feishu_depts, ouVars, user_gate, calls, unmatched_users, endVars, deptVars,
             detVars, retryVars, last_confirm>>

\* the module is being loaded: the table is empty (line 159), the variable is set
EnvInit ==
    /\ exceptions_str \in EnvStrings(MaxEnvLen)
    /\ pairs = <<>>
    /\ PINYIN_EXCEPTIONS = <<>>
    /\ pc = "getenv"
    /\ feishu_users_list = <<>>
    /\ ad_rows = <<>>
    /\ existing_users = <<>>
    /\ users_without_union_id = <<>>
    /\ new_users = <<>>
    /\ update_users = <<>>
    /\ matched_ad_users = {}
    /\ matched_ad_users_no_uid = {}
    /\ sam_accounts = <<>>
    /\ run_no = 1
    /\ prev_run = <<>>
    /\ DRY_RUN = FALSE
    /\ AUTO_YES = FALSE
    /\ DC_RESIGNED_OU = FALSE
    /\ DC_EXCLUDE_OU = <<>>
    /\ files_present = TRUE
    /\ feishu_depts = {}
    /\ ad_ou_rows = <<>>
    /\ existing_ous = <<>>
    /\ extra_ous = {}
    /\ ou_gate = NoGate
    /\ user_gate = NoGate
    /\ calls = <<>>
    /\ unmatched_users = {}
    /\ actual_new_count = 0
    /\ last_confirm = NoConfirm
    /\ remote_cleaned = FALSE
    /\ ssh_closed = FALSE
    /\ DeptIdle
    /\ DetIdle
    /\ RetryIdle

\* lines 160-162: `if exceptions_str:` and exceptions_str.split(',')
SplitExceptions ==
    /\ pc = "getenv"
    /\ IF exceptions_str # <<>>
       THEN pairs' = SplitAt(exceptions_str, ",") /\ pc' = "for pair"
       ELSE pc' = "start" /\ UNCHANGED pairs
    /\ UNCHANGED <<exceptions_str, PINYIN_EXCEPTIONS, envRest>>

\* lines 162-165: one pass of the loop: a pair without '=' is passed over; the
\* unpacking of split('=') raises ValueError unless there are two parts, and
\* nothing catches it; after the last pair the module goes on to __main__
LoadPair ==
    /\ pc = "for pair"
    /\ pairs # <<>>
    /\ LET pair  == Head(pairs)
           parts == SplitAt(Strip(pair), "=")
           after == IF Len(pairs) = 1 THEN "start" ELSE "for pair"
       IN  IF ~HasEquals(pair)
           THEN pc' = after /\ UNCHANGED PINYIN_EXCEPTIONS
           ELSE IF Len(parts) # 2
           THEN pc' = "crash" /\ UNCHANGED PINYIN_EXCEPTIONS
           ELSE /\ PINYIN_EXCEPTIONS' = DictPut(PINYIN_EXCEPTIONS, Strip(parts[1]), Strip(parts[2]))
                /\ pc' = after
    /\ pairs' = Tail(pairs)
    /\ UNCHANGED <<exceptions_str, envRest>>

EnvNext == SplitExceptions \/ LoadPair

EnvSpec == EnvInit /\ [][EnvNext]_vars

\* ========================================================= claims: run
OuOps      == {"DeleteOUs", "CreateOU"}
AccountOps == {"ResignUsers", "CreateAccounts", "UpdateAccounts"}

\* a script was run on the domain controller without -DryRun
Mutated(ops) == \E i \in 1..Len(calls) : ~calls[i].dry /\ calls[i].op \in ops

\* the snapshot's count check was made, the query returned and the two counts agree
GateVerified(gate) ==
    gate.check = "counted" /\ gate.query_ok /\ gate.actual_count = gate.csv_count
GateRefused(gate) == gate.check = "counted" /\ ~GateVerified(gate)

OuPhasePcs == {"ou_diff", "ou_confirm", "delete_extra_ous", "create_ou"}
AfterUserSnapshotPcs ==
    {"split_users_for_sync", "unmatched", "confirm_resign", "process_unmatched_users",
     "sync_check", "create", "download_passwords", "update", "cleanup_remote_files",
     "cleanup_ssh_control_master", "done", "exit0"}
AfterOuSnapshotPcs ==
    OuPhasePcs \cup {"get_existing_ad_users", "user_count_fallback", "user_parse",
                     "user_verify"} \cup AfterUserSnapshotPcs

\* C1 (as stated): no mutating executor call, OU or account, happens before both
\* snapshots have passed their integrity verification, and a run that aborts on
\* an account-snapshot integrity failure has mutated nothing.
C1_NoMutationBeforeBothVerified ==
    /\ Mutated(OuOps \cup AccountOps) => (GateVerified(ou_gate) /\ GateVerified(user_gate))
    /\ (pc = "fatal" /\ GateRefused(user_gate)) => ~Mutated(OuOps \cup AccountOps)

\* what the run does keep of that ordering: OU deletion and creation happen only
\* after the OU snapshot has passed; deactivation, creation and update of accounts
\* only after both snapshots have passed; a run that aborts on an account-snapshot
\* integrity failure has mutated no account.
C1_MutationAfterOwnSnapshot ==
    /\ Mutated(OuOps) => GateVerified(ou_gate)
    /\ Mutated(AccountOps) => (GateVerified(ou_gate) /\ GateVerified(user_gate))
    /\ (pc = "fatal" /\ GateRefused(user_gate)) => ~Mutated(AccountOps)

\* the account snapshot was refused after CreateOU.ps1 had really run
C1_Witness ==
    /\ pc = "fatal"
    /\ GateRefused(user_gate)
    /\ Mutated({"CreateOU"})

\* C2: after a download, the run is past a snapshot only if the live-count query
\* returned the number of records held; on an unequal pair or a failed query it
\* is in the fatal state with no plan (no OU diff) computed and no executor run.
C2_IntegrityGate ==
    /\ (user_gate.downloaded /\ pc \in AfterUserSnapshotPcs) =>
          /\ GateVerified(user_gate)
          /\ user_gate.csv_count = Cardinality(DOMAIN existing_users)
                                       + Cardinality(DOMAIN users_without_union_id)
    /\ (user_gate.downloaded /\ GateRefused(user_gate)) =>
          /\ pc = "fatal"
          /\ new_users = <<>> /\ update_users = <<>> /\ sam_accounts = <<>>
          /\ \A i \in 1..Len(calls) : calls[i].op \notin AccountOps
    /\ (ou_gate.downloaded /\ pc \in AfterOuSnapshotPcs) => GateVerified(ou_gate)
    /\ (ou_gate.downloaded /\ pc \in OuPhasePcs) =>
          ou_gate.csv_count = Cardinality(DOMAIN existing_ous)
    /\ (ou_gate.downloaded /\ GateRefused(ou_gate)) =>
          /\ pc = "fatal"
          /\ extra_ous = {}
          /\ calls = <<>>

\* the downloaded account export was refused on an unequal pair of counts
C2_Witness ==
    /\ pc = "fatal"
    /\ user_gate.downloaded
    /\ user_gate.check = "counted"
    /\ user_gate.query_ok
    /\ user_gate.actual_count # user_gate.csv_count

\* C3: when the export could not be downloaded, the run goes on, with an empty
\* snapshot, exactly if the live count came back as 0; any other count and a
\* failed query end it in the fatal state.
C3_UndownloadableExport ==
    /\ [](pc \in {"ou_count_fallback"} => ~ou_gate.downloaded)
    /\ [](pc \in {"user_count_fallback"} => ~user_gate.downloaded)
    /\ [][/\ pc = "ou_count_fallback" =>
               IF ou_gate'.query_ok /\ ou_gate'.actual_count = 0
               THEN pc' = "ou_diff" /\ existing_ous' = <<>>
               ELSE pc' = "fatal"
          /\ pc = "user_count_fallback" =>
               IF user_gate'.query_ok /\ user_gate'.actual_count = 0
               THEN /\ pc' = "split_users_for_sync"
                    /\ existing_users' = <<>>
                    /\ users_without_union_id' = <<>>
               ELSE pc' = "fatal"]_vars

\* a plan was computed on the empty snapshot of an account export that could not
\* be downloaded
C3_Witness ==
    /\ ~user_gate.downloaded
    /\ user_gate.check = "counted"
    /\ pc = "unmatched"
    /\ new_users # <<>>
    /\ existing_users = <<>>
    /\ users_without_union_id = <<>>

\* ===================================================== claims: planner
RosterDone == RowsDone = Len(feishu_users_list)

\* C4: every person gets a login name and no two distinct persons of the roster
\* get the same one.
C4_UniqueLoginNames ==
    \A i, j \in 1..RowsDone :
        /\ sam_accounts[i] # <<>>
        /\ i # j => sam_accounts[i] # sam_accounts[j]

\* C5: no two to_update entries refer to the same existing account.
C5_AccountClaimedOnce ==
    \A i, j \in 1..Len(update_users) :
        i # j => update_users[i].SamAccountName # update_users[j].SamAccountName

\* C6: with run 1's creates and updates applied and the roster unchanged, run 2
\* creates nobody, updates everybody and leaves the same accounts unmatched.
C6_SecondRunIdempotent ==
    (/\ run_no = 2
     /\ RosterDone
     /\ feishu_users_list = prev_run[1].roster
     /\ prev_run[1].created = prev_run[1].to_create) =>
        /\ new_users = <<>>
        /\ Len(update_users) = Len(feishu_users_list)
        /\ UnmatchedUsers(existing_users, users_without_union_id,
                          matched_ad_users, matched_ad_users_no_uid) = prev_run[1].unmatched

\* string order, stated by the first position at which two strings differ
StringOrderBefore(a, b) ==
    \E k \in 1..Len(b) :
        /\ k <= Len(a) + 1
        /\ \A m \in 1..(k - 1) : a[m] = b[m]
        /\ k = Len(a) + 1 \/ CharOrd(a[k]) < CharOrd(b[k])

\* the rank of a row in its token group: how many members have a smaller
\* employee number (members with equal employee numbers share a rank)
RankInGroup(i) ==
    Cardinality({j \in 1..Len(feishu_users_list) :
        /\ feishu_users_list[j].pinyin = feishu_users_list[i].pinyin
        /\ StringOrderBefore(feishu_users_list[j].employee_no,
                             feishu_users_list[i].employee_no)})

GroupSize(i) ==
    Cardinality({j \in 1..Len(feishu_users_list) :
        feishu_users_list[j].pinyin = feishu_users_list[i].pinyin})

\* {first}{r}.{last} for a token with exactly one '.', {token}{r} otherwise
ExpectedNumbered(tok, r) ==
    LET dots == {k \in 1..Len(tok) : tok[k] = "."}
    IN  IF Cardinality(dots) = 1
        THEN LET k == CHOOSE d \in dots : TRUE
             IN  SubSeq(tok, 1, k - 1) \o IntToStr(r) \o SubSeq(tok, k, Len(tok))
        ELSE tok \o IntToStr(r)

\* C7: without an override, a group of one keeps the token; in a larger group the
\* member of rank 0 (lowest employee number, string order) keeps it and the member
\* of rank r >= 1 gets the token numbered with r.
C7_RankedNames ==
    \A i \in 1..RowsDone :
        LET tok == feishu_users_list[i].pinyin
        IN  tok \notin DOMAIN PINYIN_EXCEPTIONS =>
                sam_accounts[i] =
                    IF GroupSize(i) = 1 \/ RankInGroup(i) = 0 THEN tok
                    ELSE ExpectedNumbered(tok, RankInGroup(i))

\* the spec's example in this model's employee numbers: "10" < "2" < "9"
C7_Witness ==
    /\ feishu_users_list = << [pinyin |-> TokAB, employee_no |-> Emp2, union_id |-> <<>>],
                              [pinyin |-> TokAB, employee_no |-> Emp10, union_id |-> <<>>],
                              [pinyin |-> TokAB, employee_no |-> Emp9, union_id |-> <<>>] >>
    /\ PINYIN_EXCEPTIONS = <<>>
    /\ sam_accounts = << <<"a", "1", ".", "b">>, <<"a", ".", "b">>, <<"a", "2", ".", "b">> >>

\* C8: a person (token, employee number) gets the same login name in the next run,
\* whatever the order of the roster's rows then is.
C8_OrderInvariant ==
    run_no = 2 =>
        \A i \in 1..RowsDone : \A j \in 1..Len(prev_run[1].roster) :
            (/\ prev_run[1].roster[j].pinyin = feishu_users_list[i].pinyin
             /\ prev_run[1].roster[j].employee_no = feishu_users_list[i].employee_no)
                => sam_accounts[i] = prev_run[1].sam_accounts[j]

\* a reordered roster with a numbered member, fully processed in run 2
C8_Witness ==
    /\ run_no = 2
    /\ RosterDone
    /\ feishu_users_list # prev_run[1].roster
    /\ \E i \in 1..RowsDone : sam_accounts[i] # feishu_users_list[i].pinyin
                              /\ feishu_users_list[i].pinyin \notin DOMAIN PINYIN_EXCEPTIONS

\* the row the loop takes next, and whether tier 1 applies to it
NextRow == feishu_users_list[RowsDone + 1]
Tier1Applies(row) == row.union_id # <<>> /\ row.union_id \in DOMAIN existing_users
RowStep == RowsDone < Len(feishu_users_list) /\ Len(sam_accounts') = RowsDone + 1

\* C9: a person whose Union ID is a key of existing_users is matched to that
\* account and to no other, whatever login name was assigned.
C9_Tier1Match ==
    [][(RowStep /\ Tier1Applies(NextRow)) =>
          /\ update_users' = Append(update_users,
                [SamAccountName |-> existing_users[NextRow.union_id].SamAccountName,
                 EmployeeID |-> NextRow.employee_no,
                 EmployeeNumber |-> NextRow.union_id])
          /\ new_users' = new_users
          /\ matched_ad_users' = matched_ad_users \cup {NextRow.union_id}
          /\ matched_ad_users_no_uid' = matched_ad_users_no_uid]_vars

\* the last row matched on its Union ID although its assigned login name is a
\* legacy account's key and differs from the matched account's name
C9_Witness ==
    /\ RowsDone >= 1
    /\ Tier1Applies(feishu_users_list[RowsDone])
    /\ sam_accounts[RowsDone] \in DOMAIN users_without_union_id
    /\ sam_accounts[RowsDone] \notin matched_ad_users_no_uid
    /\ update_users # <<>>
    /\ update_users[Len(update_users)].SamAccountName # sam_accounts[RowsDone]
    /\ update_users[Len(update_users)].EmployeeNumber = feishu_users_list[RowsDone].union_id

\* C10: when tier 1 does not apply, a person whose assigned login name is a key of
\* users_without_union_id is matched to that legacy account; a person matching
\* neither index becomes a to_create entry under the assigned name.
C10_Tier2OrCreate ==
    [][(RowStep /\ ~Tier1Applies(NextRow)) =>
          LET sam   == sam_accounts'[RowsDone + 1]
              entry == [SamAccountName |-> sam,
                        EmployeeID |-> NextRow.employee_no,
                        EmployeeNumber |-> NextRow.union_id]
          IN  /\ matched_ad_users' = matched_ad_users
              /\ IF sam \in DOMAIN users_without_union_id
                 THEN /\ update_users' = Append(update_users, entry)
                      /\ new_users' = new_users
                      /\ matched_ad_users_no_uid' = matched_ad_users_no_uid \cup {sam}
                 ELSE /\ new_users' = Append(new_users, entry)
                      /\ update_users' = update_users
                      /\ matched_ad_users_no_uid' = matched_ad_users_no_uid]_vars

\* both outcomes in one run: a person with an unknown Union ID claimed a legacy
\* account by name, and another person became a to_create entry
C10_Witness ==
    /\ RowsDone >= 2
    /\ new_users # <<>>
    /\ \E i \in 1..Len(update_users) :
          /\ update_users[i].SamAccountName \in matched_ad_users_no_uid
          /\ update_users[i].EmployeeNumber # <<>>
          /\ update_users[i].EmployeeNumber \notin DOMAIN existing_users

\* ------------------------------------------------------------ partition
\* what identifies a person in a plan entry and in a roster row
EntryPerson(e) == <<e.EmployeeID, e.EmployeeNumber>>
RowPerson(r)   == <<r.employee_no, r.union_id>>
EntriesOf(list, k) == Cardinality({i \in 1..Len(list) : EntryPerson(list[i]) = k})
RowsOf(k) == Cardinality({i \in 1..RowsDone : RowPerson(feishu_users_list[i]) = k})

\* C11: the rows processed so far are partitioned: the two lists together are as
\* long as that part of the roster, and every person has as many entries in
\* new_users and update_users together as rows in the roster (one entry, in one
\* list, for a person with one row).
C11_RosterPartition ==
    /\ Len(new_users) + Len(update_users) = RowsDone
    /\ \A i \in 1..RowsDone :
          LET k == RowPerson(feishu_users_list[i])
          IN  EntriesOf(new_users, k) + EntriesOf(update_users, k) = RowsOf(k)

\* a full roster split into both lists
C11_Witness ==
    /\ RosterDone
    /\ Len(feishu_users_list) = MaxRoster
    /\ new_users # <<>>
    /\ update_users # <<>>

\* ------------------------------------------------------ unmatched accounts
AfterListingPcs ==
    {"confirm_resign", "process_unmatched_users", "sync_check", "create",
     "download_passwords", "update", "cleanup_remote_files",
     "cleanup_ssh_control_master", "done", "exit0"}

\* some person of the roster claimed the exported account a: by Union ID when the
\* account has one, else by assigned login name when the person's own Union ID
\* is that of no exported account
AccountClaimed(a) ==
    \E i \in 1..Len(feishu_users_list) :
        LET r == feishu_users_list[i]
        IN  IF Strip(a.EmployeeNumber) # <<>>
            THEN r.union_id = Strip(a.EmployeeNumber)
            ELSE /\ i <= Len(sam_accounts)
                 /\ sam_accounts[i] = a.SamAccountName
                 /\ \/ r.union_id = <<>>
                    \/ \A j \in 1..Len(ad_rows) : Strip(ad_rows[j].EmployeeNumber) # r.union_id

\* C12: once __main__ has listed them, unmatched_users holds exactly the exported
\* accounts no person claimed, each once, and their number is the number of
\* accounts minus the number of claimed ones.
C12_UnmatchedAccounts ==
    pc \in AfterListingPcs =>
        /\ unmatched_users = {ad_rows[i].SamAccountName :
                                 i \in {j \in 1..Len(ad_rows) : ~AccountClaimed(ad_rows[j])}}
        /\ Cardinality(unmatched_users) =
               Len(ad_rows) - Cardinality(matched_ad_users)
                            - Cardinality(matched_ad_users_no_uid)

\* one account was claimed and another was listed as unmatched
C12_Witness ==
    /\ pc \in AfterListingPcs
    /\ Len(ad_rows) = 2
    /\ update_users # <<>>
    /\ Cardinality(unmatched_users) = 1
    /\ \E i \in 1..2 : AccountClaimed(ad_rows[i])

\* ------------------------------------------------------- update entries
\* the exported account that carries the Union ID uid
AccountOfUnionId(uid) ==
    CHOOSE j \in 1..Len(ad_rows) : Strip(ad_rows[j].EmployeeNumber) = uid

HasAccountOfUnionId(uid) ==
    uid # <<>> /\ \E j \in 1..Len(ad_rows) : Strip(ad_rows[j].EmployeeNumber) = uid

\* C13: every update_users entry carries the login name of the existing account it
\* was matched to: for a person matched by Union ID the stored SamAccountName of
\* the account with that Union ID, otherwise the name of an exported account
\* without Union ID; never a name that assignment only produced.
C13_UpdateKeyedByExisting ==
    \A i \in 1..Len(update_users) :
        LET e == update_users[i]
        IN  IF HasAccountOfUnionId(e.EmployeeNumber)
            THEN e.SamAccountName = ad_rows[AccountOfUnionId(e.EmployeeNumber)].SamAccountName
            ELSE \E j \in 1..Len(ad_rows) :
                    /\ ad_rows[j].SamAccountName = e.SamAccountName
                    /\ Strip(ad_rows[j].EmployeeNumber) = <<>>

\* a person matched by Union ID to an account whose login name assignment gave to
\* nobody in the roster
C13_Witness ==
    /\ RosterDone
    /\ \E i \in 1..Len(update_users) :
          /\ HasAccountOfUnionId(update_users[i].EmployeeNumber)
          /\ \A k \in 1..Len(sam_accounts) :
                sam_accounts[k] # update_users[i].SamAccountName

\* ------------------------------------------------------- account snapshot
\* the EmployeeNumber cell without the white space around it
Trimmed(cell) ==
    LET inner == {k \in 1..Len(cell) : cell[k] # " "}
    IN  IF inner = {} THEN <<>>
        ELSE SubSeq(cell, CHOOSE k \in inner : \A m \in inner : k <= m,
                          CHOOSE k \in inner : \A m \in inner : k >= m)

AfterUserParsePcs == {"user_verify"} \cup AfterUserSnapshotPcs

\* C14: the parsed export is split over the two indexes: an account with a
\* non-empty trimmed Union ID is in existing_users under that id and not in
\* users_without_union_id, any other account is in users_without_union_id under
\* its login name and not in existing_users, and the indexes hold nothing else.
C14_SnapshotIndexes ==
    (pc \in AfterUserParsePcs /\ user_gate.downloaded) =>
        /\ \A j \in 1..Len(ad_rows) :
              LET a   == ad_rows[j]
                  uid == Trimmed(a.EmployeeNumber)
              IN  IF uid # <<>>
                  THEN /\ uid \in DOMAIN existing_users
                       /\ existing_users[uid].SamAccountName = a.SamAccountName
                       /\ a.SamAccountName \notin DOMAIN users_without_union_id
                  ELSE /\ a.SamAccountName \in DOMAIN users_without_union_id
                       /\ users_without_union_id[a.SamAccountName].SamAccountName
                              = a.SamAccountName
                       /\ \A k \in DOMAIN existing_users :
                              existing_users[k].SamAccountName # a.SamAccountName
        /\ DOMAIN existing_users =
              {Trimmed(ad_rows[j].EmployeeNumber) : j \in 1..Len(ad_rows)} \ {<<>>}
        /\ DOMAIN users_without_union_id =
              {ad_rows[j].SamAccountName :
                  j \in {i \in 1..Len(ad_rows) : Trimmed(ad_rows[i].EmployeeNumber) = <<>>}}

\* an export with a blank cell and a padded Union ID, one account in each index
C14_Witness ==
    /\ pc \in AfterUserParsePcs
    /\ user_gate.downloaded
    /\ \E i, j \in 1..Len(ad_rows) :
          /\ ad_rows[i].EmployeeNumber = UidBlank
          /\ ad_rows[j].EmployeeNumber = UidU1Padded
    /\ DOMAIN existing_users = {UidU1}
    /\ Cardinality(DOMAIN users_without_union_id) = 1

\* ------------------------------------------------------------ overrides
\* C15: a person whose token is a key of PINYIN_EXCEPTIONS is assigned the forced
\* name, whatever the size of the token's group and the person's rank in it.
C15_OverrideFirst ==
    \A i \in 1..RowsDone :
        feishu_users_list[i].pinyin \in DOMAIN PINYIN_EXCEPTIONS =>
            sam_accounts[i] = PINYIN_EXCEPTIONS[feishu_users_list[i].pinyin]

\* a member of an overridden group of three, with two smaller employee numbers
\* before it, was given the forced name
C15_Witness ==
    /\ RosterDone
    /\ \E i \in 1..RowsDone :
          /\ feishu_users_list[i].pinyin \in DOMAIN PINYIN_EXCEPTIONS
          /\ GroupSize(i) = 3
          /\ RankInGroup(i) = 2
          /\ sam_accounts[i] = PINYIN_EXCEPTIONS[feishu_users_list[i].pinyin]

\* -------------------------------------------------------------- dry run
\* C16: in dry-run mode every executor invocation is one of CreateOU,
\* CreateAccounts, UpdateAccounts and carries -DryRun; the run is never at the
\* call of the OU-deletion executor, of the deactivation executor or of the
\* password download; a run that ends has verified both snapshots and planned
\* every roster row; and confirm() returns False, auto-confirm or not.
C16_DryRunSuppressed ==
    /\ DRY_RUN =>
          /\ \A i \in 1..Len(calls) :
                /\ calls[i].dry
                /\ calls[i].op \in {"CreateOU", "CreateAccounts", "UpdateAccounts"}
          /\ pc \notin {"delete_extra_ous", "process_unmatched_users", "download_passwords"}
          /\ pc \in {"done", "exit0"} =>
                /\ GateVerified(ou_gate)
                /\ GateVerified(user_gate)
                /\ Len(sam_accounts) = Len(feishu_users_list)
                /\ Len(new_users) + Len(update_users) = Len(feishu_users_list)
    /\ \A auto_yes, default \in BOOLEAN : \A response \in Responses :
          ~confirm(TRUE, auto_yes, default, response)

\* a finished dry run with auto-confirm set, an unmatched account and a
\* deactivation scope: CreateOU.ps1 and CreateAccounts.ps1 ran with -DryRun
C16_Witness ==
    /\ DRY_RUN /\ AUTO_YES /\ DC_RESIGNED_OU
    /\ pc = "done"
    /\ unmatched_users # {}
    /\ \E i, j \in 1..Len(calls) :
          /\ calls[i].op = "CreateOU" /\ calls[i].dry
          /\ calls[j].op = "CreateAccounts" /\ calls[j].dry

\* ------------------------------------------------------------- OU scope
\* dn lies under scope: dn is some components followed by those of scope
Under(dn, scope) ==
    \E n \in 1..Len(dn) :
        /\ Len(dn) = n + Len(scope)
        /\ \A k \in 1..Len(scope) : dn[n + k] = scope[k]

\* an exported OU the sync works on: not the base scope, not the exclusion scope,
\* nothing under the exclusion scope
InScope(row) ==
    /\ row.DistinguishedName # DC_BASE_OU
    /\ \/ DC_EXCLUDE_OU = <<>>
       \/ /\ row.DistinguishedName # DC_EXCLUDE_OU
          /\ ~Under(row.DistinguishedName, DC_EXCLUDE_OU)

InScopeRows == {j \in 1..Len(ad_ou_rows) : InScope(ad_ou_rows[j])}

AfterOuDiffPcs == {"ou_confirm", "delete_extra_ous", "create_ou"}

\* C17: once the diff is made, extra_ous holds exactly the names of the in-scope
\* exported OUs that are not the name of a Feishu department; an OU named like a
\* department is not in it, wherever it hangs.
C17_OuDiff ==
    pc \in AfterOuDiffPcs =>
        /\ extra_ous = {ad_ou_rows[j].Name : j \in InScopeRows} \ feishu_depts
        /\ \A j \in 1..Len(ad_ou_rows) :
              ad_ou_rows[j].Name \in feishu_depts => ad_ou_rows[j].Name \notin extra_ous

\* the exported OUs Sales, Eng and Legacy against the departments Sales and Eng,
\* the OU named Sales hanging under Legacy
C17_Witness ==
    /\ pc \in AfterOuDiffPcs
    /\ feishu_depts = {"Sales", "Eng"}
    /\ {ad_ou_rows[j].Name : j \in InScopeRows} = {"Sales", "Eng", "Legacy"}
    /\ \E j \in InScopeRows :
          /\ ad_ou_rows[j].Name = "Sales"
          /\ Len(ad_ou_rows[j].DistinguishedName) = Len(DC_BASE_OU) + 2
    /\ extra_ous = {"Legacy"}

\* C18: the OU snapshot read from the export holds exactly the in-scope rows,
\* each under its distinguished name: not the base scope, not the exclusion
\* scope, nothing under the exclusion scope, and every other exported OU; the
\* count compared with the live count is the number of those rows.
C18_OuScoping ==
    (ou_gate.downloaded /\ pc \in {"ou_verify", "ou_diff"} \cup AfterOuDiffPcs) =>
        /\ DOMAIN existing_ous = {ad_ou_rows[j].DistinguishedName : j \in InScopeRows}
        /\ \A j \in InScopeRows :
              existing_ous[ad_ou_rows[j].DistinguishedName] = ad_ou_rows[j].Name
        /\ DC_BASE_OU \notin DOMAIN existing_ous
        /\ DC_EXCLUDE_OU # <<>> =>
              \A dn \in DOMAIN existing_ous :
                  dn # DC_EXCLUDE_OU /\ ~Under(dn, DC_EXCLUDE_OU)
        /\ DC_EXCLUDE_OU = <<>> =>
              DOMAIN existing_ous =
                  {ad_ou_rows[j].DistinguishedName : j \in 1..Len(ad_ou_rows)} \ {DC_BASE_OU}
        /\ ou_gate.check = "counted" => ou_gate.csv_count = Cardinality(InScopeRows)

\* an export with the base scope, an OU under the exclusion scope and one other
\* OU: only the last one is kept
C18_Witness ==
    /\ ou_gate.downloaded
    /\ pc = "ou_diff"
    /\ DC_EXCLUDE_OU = DnExcl
    /\ \E i, j \in 1..Len(ad_ou_rows) :
          /\ ad_ou_rows[i].DistinguishedName = DC_BASE_OU
          /\ Under(ad_ou_rows[j].DistinguishedName, DC_EXCLUDE_OU)
    /\ Cardinality(DOMAIN existing_ous) = 1

\* ----------------------------------------------------- department paths
\* the rows from a top-level ancestor (parent "0", or a parent without a row) down
\* to the department dept_id, as row numbers; a department on or below a cycle
\* has none
AncestorChains(dept_id) ==
    {c \in UNION {[1..k -> 1..Len(dept_list)] : k \in 1..Len(dept_list)} :
        /\ dept_list[c[Len(c)]].dept_id = dept_id
        /\ \A m \in 1..(Len(c) - 1) :
              /\ dept_list[c[m + 1]].parent_dept_id = dept_list[c[m]].dept_id
              /\ dept_list[c[m + 1]].parent_dept_id # "0"
        /\ \/ dept_list[c[1]].parent_dept_id = "0"
           \/ \A r \in 1..Len(dept_list) :
                 dept_list[r].dept_id # dept_list[c[1]].parent_dept_id}

\* the names of a chain's rows, top first, with a backslash between two names
RECURSIVE JoinNames(_)
JoinNames(c) ==
    IF Len(c) = 1 THEN dept_list[c[1]].dept_name
    ELSE JoinNames(SubSeq(c, 1, Len(c) - 1)) \o <<"\\">> \o dept_list[c[Len(c)]].dept_name

HasRow(dept_id) == \E r \in 1..Len(dept_list) : dept_list[r].dept_id = dept_id
Resolvable(dept_id) == dept_id = "0" \/ AncestorChains(dept_id) # {}

\* C19: the path stored for a department with an ancestor chain is the chain's
\* names from the top-level ancestor down, joined by backslashes; id "0" and an
\* id without a row resolve to the empty string; a department whose parent has no
\* row resolves to its own name; and a table without a cycle is resolved without
\* an exception.
C19_ResolvedPaths ==
    /\ \A dept_id \in DOMAIN dept_path_map \ {"0"} :
          LET chains == AncestorChains(dept_id)
          IN  chains # {} => dept_path(dept_id) = JoinNames(CHOOSE c \in chains : TRUE)
    /\ \A dept_id \in DeptIds \cup {"9", ""} :
          (dept_id = "0" \/ ~HasRow(dept_id)) => dept_path(dept_id) = <<>>
    /\ \A r \in 1..Len(dept_list) :
          (/\ dept_list[r].dept_id \in DOMAIN dept_path_map
           /\ dept_list[r].dept_id # "0"
           /\ dept_list[r].parent_dept_id # "0"
           /\ ~HasRow(dept_list[r].parent_dept_id)) =>
              dept_path(dept_list[r].dept_id) = dept_list[r].dept_name
    /\ pc = "crash" => \E r \in 1..Len(dept_list) : ~Resolvable(dept_list[r].dept_id)

\* the table Root(0), Eng(1) under 0, Backend(2) under 1, resolved
C19_Witness ==
    /\ dept_index = 3
    /\ {dept_list[r] : r \in 1..3} =
          {[dept_id |-> "0", parent_dept_id |-> "0", dept_name |-> <<"R">>],
           [dept_id |-> "1", parent_dept_id |-> "0", dept_name |-> <<"E">>],
           [dept_id |-> "2", parent_dept_id |-> "1", dept_name |-> <<"B">>]}
    /\ dept_path("2") = <<"E", "\\", "B">>
    /\ dept_path("1") = <<"E">>
    /\ dept_path("0") = <<>>

\* C20: the path computation ends for every table without an exception, and a
\* department whose ancestor chain runs into a cycle gets the empty path.
C20_CyclesYieldEmptyPath ==
    /\ pc # "crash"
    /\ \A dept_id \in DOMAIN dept_path_map :
          ~Resolvable(dept_id) => dept_path_map[dept_id] = <<>>

\* ------------------------------------------------------- determinism
\* C21: two planning runs on the same roster and snapshot return the same
\* to_create, to_update, claimed sets and extra-OU list, entry for entry in the
\* same order, and leave the roster and the snapshot as they were given.
C21_SameInputsSamePlan ==
    Len(plan_log) = 2 => plan_log[1] = plan_log[2]

\* ------------------------------------------------------- remote calls
\* the subprocess.run calls among the events, and the outcome of the last one
Attempts == SelectSeq(events, LAMBDA e : e.call = "subprocess.run")
LastFailed ==
    /\ retry_pc = "done"
    /\ events[Len(events)].outcome # "zero"

\* C22: once a remote command or a transfer has failed on its last attempt
\* (non-zero exit, timeout or exception), the run is aborted: the caller does not
\* go on to its next statement or to a later phase.
C22_ExhaustionIsFatal ==
    (LastFailed /\ pc # call_site.caller) => pc \in {"fatal", "crash"}

\* C26: the retry functions make between 1 and max_retries attempts; an attempt
\* that exits 0 is the last and its result is returned; a delay of 2 seconds is
\* taken after every failed attempt but the last and nowhere else; an exception of
\* the last attempt is raised again; a non-zero exit of the last attempt is
\* returned without raising.
C26_BoundedRetry ==
    /\ Len(Attempts) <= max_retries
    /\ \A i \in 1..Len(events) :
          LET e == events[i]
          IN  IF e.call = "subprocess.run"
              THEN /\ e.attempt = Len(SelectSeq(SubSeq(events, 1, i - 1),
                                                LAMBDA x : x.call = "subprocess.run"))
                   /\ e.outcome = "zero" => (i = Len(events) /\ retry_pc = "done")
                   /\ i > 1 => events[i - 1].call = "time.sleep"
              ELSE /\ e.outcome = "2"
                   /\ i > 1
                   /\ events[i - 1].call = "subprocess.run"
                   /\ events[i - 1].outcome # "zero"
                   /\ events[i - 1].attempt < max_retries - 1
                   /\ retry_pc = "done" => i < Len(events)
    /\ retry_pc = "done" =>
          LET last == events[Len(events)]
          IN  /\ Len(Attempts) >= 1
              /\ last.call = "subprocess.run"
              /\ last.outcome = "zero" =>
                    result = << [kind |-> "returned", returncode |-> 0] >>
              /\ last.outcome # "zero" => Len(Attempts) = max_retries
              /\ last.outcome = "nonzero" =>
                    (result # <<>> /\ result[1].kind = "returned" /\ result[1].returncode # 0)
              /\ last.outcome \in {"timeout", "exception"} =>
                    (result # <<>> /\ result[1].kind = "raised")

\* max_retries attempts were made with a delay between them and the last one timed out
C26_Witness ==
    /\ retry_pc = "done"
    /\ Len(Attempts) = max_retries
    /\ Len(events) = 2 * max_retries - 1
    /\ events[Len(events)].outcome = "timeout"
    /\ result[1].kind = "raised"

\* ----------------------------------------------------- override table
\* the entries of the override string between the commas, and how many '=' one has
EqualsIn(entry) == Len(SelectSeq(entry, LAMBDA c : c = "="))
Malformed(str) ==
    /\ str # <<>>
    /\ \E i \in 1..Len(SplitAt(str, ",")) : EqualsIn(SplitAt(str, ",")[i]) # 1

\* C23: an override string with an entry that has no '=' or more than one '='
\* ends the start-up in an error: the program never gets to __main__ with it.
C23_MalformedTableIsFatal ==
    (Malformed(exceptions_str) /\ pc \notin {"getenv", "for pair"}) => pc \in {"fatal", "crash"}

\* ------------------------------------------------------- confirmation
\* the executor call a step adds to the log, <<>> if it adds none
NewCall == IF Len(calls') > Len(calls) THEN <<calls'[Len(calls')]>> ELSE <<>>
Destructive == {"DeleteOUs", "ResignUsers"}

\* C24: the OU deletion and the deactivation of accounts are started only on a
\* confirm() for that operation that returned True; with auto-confirm (outside a
\* dry run) confirm() returns True without reading a response; otherwise it reads
\* one response, returns False (the default of both prompts) on an empty one, and
\* returns True exactly for 'y' and 'yes'.
C24_ConfirmedDestruction ==
    [][/\ (NewCall # <<>> /\ NewCall[1].op \in Destructive) =>
             (last_confirm.prompt = NewCall[1].op /\ last_confirm.returned)
       /\ (pc' \in {"delete_extra_ous", "process_unmatched_users"} /\ pc' # pc) =>
             (last_confirm'.returned /\ last_confirm'.prompt =
                  IF pc' = "delete_extra_ous" THEN "DeleteOUs" ELSE "ResignUsers")
       /\ (last_confirm' # last_confirm /\ last_confirm'.prompt # "none") =>
             IF AUTO_YES /\ ~DRY_RUN
             THEN last_confirm'.returned /\ ~last_confirm'.read
             ELSE /\ last_confirm'.read
                  /\ last_confirm'.response = "" => ~last_confirm'.returned
                  /\ last_confirm'.returned <=> last_confirm'.response \in {"y", "yes"}
      ]_vars

\* accounts were deactivated after 'yes' was typed at the prompt
C24_Witness ==
    /\ \E i \in 1..Len(calls) : calls[i].op = "ResignUsers" /\ ~calls[i].dry
    /\ last_confirm.prompt = "ResignUsers"
    /\ last_confirm.read
    /\ last_confirm.response = "yes"
    /\ last_confirm.returned

\* ----------------------------------------------- creation under a taken name
\* C25: no entry of to_create carries the login name of an account of the
\* snapshot, whichever index the account is in.
C25_NoCreateUnderTakenName ==
    \A i \in 1..Len(new_users) :
        \A j \in 1..Len(ad_rows) :
            new_users[i].SamAccountName # ad_rows[j].SamAccountName

\* ---------------------------------------------------- executor order
\* the place of an executor in the order of the run
ExecutorRank(op) ==
    CASE op = "DeleteOUs" -> 1 [] op = "CreateOU" -> 2 [] op = "ResignUsers" -> 3
      [] op = "CreateAccounts" -> 4 [] op = "UpdateAccounts" -> 5

C28_CleanupBeforeExit ==
    (pc \in {"done", "exit0"} /\ GateVerified(ou_gate) /\ GateVerified(user_gate)) =>
        (remote_cleaned /\ ssh_closed)

====
